---- MODULE Spec2Model ----
(***************************************************************************)
(* Model of the two protocol engines of BT-Hardware:                       *)
(*   - NMEAparser (scripts/NMEA.py): the character-at-a-time NMEA sentence *)
(*     parser, with its checksum stage and the RMC field parser;           *)
(*   - SIM800L.execute (scripts/SIM800L.py): the AT command channel.       *)
(* Strings are sequences of characters; a character is a one-character     *)
(* string, except the two control characters NUL and DEL.  Python list     *)
(* indices are 0-based: gps_segments[i] is written gps_segments[i + 1].    *)
(***************************************************************************)
EXTENDS Integers, Sequences, FiniteSets, TLC

----------------------------------------------------------------------------
(* Characters and Python's built-in conversions                            *)

\* ord(): the code point of each character the model feeds.
Ord ==
    ("NUL" :> 0) @@ ("DEL" :> 127) @@
    ("$" :> 36) @@ ("*" :> 42) @@ ("+" :> 43) @@ ("," :> 44) @@ ("-" :> 45) @@
    ("." :> 46) @@
    ("0" :> 48) @@ ("1" :> 49) @@ ("2" :> 50) @@ ("3" :> 51) @@ ("4" :> 52) @@
    ("5" :> 53) @@ ("6" :> 54) @@ ("7" :> 55) @@ ("8" :> 56) @@ ("9" :> 57) @@
    ("A" :> 65) @@ ("B" :> 66) @@ ("C" :> 67) @@ ("D" :> 68) @@ ("E" :> 69) @@
    ("F" :> 70) @@ ("G" :> 71) @@ ("L" :> 76) @@ ("M" :> 77) @@ ("N" :> 78) @@
    ("P" :> 80) @@ ("R" :> 82) @@ ("S" :> 83) @@ ("V" :> 86) @@ ("W" :> 87) @@
    ("X" :> 88) @@ ("Z" :> 90)

Chars == DOMAIN Ord

\* The value of a digit in base 10 and in base 16 (int(s), int(s, 16), float(s)).
DecDigit ==
    ("0" :> 0) @@ ("1" :> 1) @@ ("2" :> 2) @@ ("3" :> 3) @@ ("4" :> 4) @@
    ("5" :> 5) @@ ("6" :> 6) @@ ("7" :> 7) @@ ("8" :> 8) @@ ("9" :> 9)

HexDigit ==
    DecDigit @@ ("A" :> 10) @@ ("B" :> 11) @@ ("C" :> 12) @@ ("D" :> 13) @@
    ("E" :> 14) @@ ("F" :> 15)

\* a ^ b on non-negative integers.
RECURSIVE BitXor(_, _)
BitXor(a, b) ==
    IF a = 0 THEN b
    ELSE IF b = 0 THEN a
    ELSE (((a % 2) + (b % 2)) % 2) + 2 * BitXor(a \div 2, b \div 2)

\* s[i:j] and s[i:] of Python, for 0 <= i.
Slice(s, i, j) == SubSeq(s, i + 1, IF j < Len(s) THEN j ELSE Len(s))
SliceFrom(s, i) == SubSeq(s, i + 1, Len(s))

AllIn(s, table) == \A k \in 1..Len(s) : s[k] \in DOMAIN table

\* The number written by a sequence of digits in the given base.
RECURSIVE DigitsValue(_, _, _)
DigitsValue(s, table, base) ==
    IF s = <<>> THEN 0
    ELSE base * DigitsValue(SubSeq(s, 1, Len(s) - 1), table, base) + table[s[Len(s)]]

\* An optional sign in front of a literal: [sign, rest].
Signed(s) ==
    IF s # <<>> /\ s[1] \in {"+", "-"}
    THEN [sign |-> IF s[1] = "-" THEN -1 ELSE 1, rest |-> Tail(s)]
    ELSE [sign |-> 1, rest |-> s]

\* int(s, base): an optional sign and at least one digit of the base; anything
\* else is ValueError (ok = FALSE).  The model's alphabet has no whitespace, no
\* underscore and no lower-case letter, so stripping, digit grouping and the
\* "0x" prefix never apply.
IntOfSigned(p, table, base) ==
    IF p.rest # <<>> /\ AllIn(p.rest, table)
    THEN [ok |-> TRUE, val |-> p.sign * DigitsValue(p.rest, table, base)]
    ELSE [ok |-> FALSE, val |-> 0]
ParseIntBase(s, table, base) == IntOfSigned(Signed(s), table, base)

ParseInt(s) == ParseIntBase(s, DecDigit, 10)
ParseHex(s) == ParseIntBase(s, HexDigit, 16)

\* Floats are kept as exact fractions <<numerator, denominator>> in lowest
\* terms with a positive denominator; <<0, 0>> is nan.
RECURSIVE GCD(_, _)
GCD(a, b) == IF b = 0 THEN a ELSE GCD(b, a % b)

Abs(n) == IF n < 0 THEN -n ELSE n

Reduce(n, d, g) == <<n \div g, d \div g>>
Norm(n, d) == Reduce(n, d, GCD(Abs(n), d))

NaN == <<0, 0>>
Zero == <<0, 1>>
IsNaN(x) == x[2] = 0

RatOfInt(n) == <<n, 1>>
RatAdd(x, y) ==
    IF IsNaN(x) \/ IsNaN(y) THEN NaN
    ELSE Norm(x[1] * y[2] + y[1] * x[2], x[2] * y[2])
RatDivInt(x, k) == IF IsNaN(x) THEN NaN ELSE Norm(x[1], x[2] * k)
RatMulInt(x, k) == IF IsNaN(x) THEN NaN ELSE Norm(x[1] * k, x[2])

RECURSIVE Pow10(_)
Pow10(k) == IF k = 0 THEN 1 ELSE 10 * Pow10(k - 1)

\* The position of the first occurrence of c in s, 0 when there is none.
First(at) == IF at = {} THEN 0 ELSE CHOOSE k \in at : \A j \in at : k <= j
IndexOf(s, c) == First({k \in 1..Len(s) : s[k] = c})

\* s cut at position i (0: not cut): what is before and what is after it.
SplitAt(s, i) ==
    [head |-> IF i = 0 THEN s ELSE SubSeq(s, 1, i - 1),
     tail |-> IF i = 0 THEN <<>> ELSE SliceFrom(s, i),
     found |-> i # 0]
Partition(s, c) == SplitAt(s, IndexOf(s, c))

\* m * 10^shift as a fraction.
Scaled(m, shift) ==
    IF shift >= 0 THEN Norm(m * Pow10(shift), 1) ELSE Norm(m, Pow10(-shift))

\* The float written by the digits `digits`, the last fraclen of them after
\* the point, with the exponent x (a result of int()).
FloatOfDigits(sign, digits, fraclen, x) ==
    IF digits # <<>> /\ AllIn(digits, DecDigit) /\ x.ok
    THEN [ok |-> TRUE,
          val |-> Scaled(sign * DigitsValue(digits, DecDigit, 10), x.val - fraclen)]
    ELSE [ok |-> FALSE, val |-> Zero]

FloatOfMantissa(sign, m, x) ==
    FloatOfDigits(sign, m.head \o m.tail, Len(m.tail), x)

FloatOfExponent(sign, e) ==
    FloatOfMantissa(sign, Partition(e.head, "."),
                    ParseInt(IF e.found THEN e.tail ELSE <<"0">>))

FloatOfSigned(p) ==
    IF p.rest = <<"N", "A", "N">> THEN [ok |-> TRUE, val |-> NaN]
    ELSE FloatOfExponent(p.sign, Partition(p.rest, "E"))

\* float(s): [sign] (digits [. digits] | . digits) [E [sign] digits], or a
\* signed "NAN"; anything else is ValueError (ok = FALSE).  ("INF" cannot be
\* written in the model's alphabet.)
ParseFloat(s) == FloatOfSigned(Signed(s))

----------------------------------------------------------------------------
(* NMEAparser: state                                                       *)

VARIABLES
    sentence_active,    \* NMEAparser.sentence_active
    active_segment,     \* NMEAparser.active_segment (0-based, as in the code)
    process_crc,        \* NMEAparser.process_crc
    gps_segments,       \* NMEAparser.gps_segments: sequence of strings
    crc_xor,            \* NMEAparser.crc_xor
    char_count,         \* NMEAparser.char_count
    utc_time,           \* NMEAparser.utc_time (a fraction)
    lat,                \* NMEAparser.lat (a fraction, degrees)
    lng,                \* NMEAparser.lng (a fraction, degrees)
    valid,              \* NMEAparser.valid
    stream,             \* the characters the GPS receiver delivers, in order
    pos,                \* how many of them update() has been called with
    ret                 \* outcome of the last update() call:
                        \* "True", "False", "IndexError" (raised), "none" (no call yet)

nmea_vars ==
    <<sentence_active, active_segment, process_crc, gps_segments, crc_xor,
      char_count, utc_time, lat, lng, valid, stream, pos, ret>>

\* NMEAparser.__NMEA_MAX_CHAR_COUNT
NMEA_MAX_CHAR_COUNT == 90

\* NMEAparser.__HEMISPHERES
HEMISPHERES == {<<"N">>, <<"S">>, <<"E">>, <<"W">>}

\* The Fix part of the parser, as one record.
Fix == [utc_time |-> utc_time, lat |-> lat, lng |-> lng, valid |-> valid]

----------------------------------------------------------------------------
(* NMEAparser: sentence parsers                                            *)

\* (d + m / per) * sign of two parsed numbers; ok = FALSE is the ValueError of
\* int() or of float().
DegreesOf(d, m, per, sign) ==
    IF d.ok /\ m.ok
    THEN [ok |-> TRUE,
          val |-> RatMulInt(RatAdd(RatOfInt(d.val), RatDivInt(m.val, per)), sign)]
    ELSE [ok |-> FALSE, val |-> Zero]

\* Mutant of Degrees: the minutes are divided by 100 instead of 60.
Degrees_Div100(field, k, hemi, positive) ==
    DegreesOf(ParseInt(Slice(field, 0, k)), ParseFloat(SliceFrom(field, k)), 100,
              IF hemi = <<positive>> THEN 1 ELSE -1)

\* (int(field[0:k]) + float(field[k:]) / 60) * (1 if hemi == positive else -1).
Degrees(field, k, hemi, positive) ==
    DegreesOf(ParseInt(Slice(field, 0, k)), ParseFloat(SliceFrom(field, k)), 60,
              IF hemi = <<positive>> THEN 1 ELSE -1)

\* Mutant of ClearFix: the longitude is not cleared.
ClearFix_KeepsLng(f) == [f EXCEPT !.lat = Zero, !.valid = FALSE]

\* The `else` branch of gprmc: clear the position of an invalid sentence.
ClearFix(f) == [f EXCEPT !.lat = Zero, !.lng = Zero, !.valid = FALSE]

\* NMEAparser.gprmc on the segments segs and the Fix f.  The result is the
\* Fix as the call leaves it and how the call ends: out = "True" / "False"
\* (the return value) or "IndexError" (a segment index past the end of the
\* list, which gprmc does not catch).  Every assignment happens where the
\* code makes it, so a call that fails late has already stored what it
\* parsed before.
\* The steps are in the order of the code: gprmc_lng, gprmc_lat, gprmc_status
\* and gprmc_time are what follows the longitude, the latitude, the UTC time
\* assignment and the float() of the UTC time.
Outcome(fix, out) == [fix |-> fix, out |-> out]

gprmc_lng(f2, lo) ==
    IF ~lo.ok THEN Outcome(f2, "False")
    ELSE Outcome([f2 EXCEPT !.lng = lo.val, !.valid = TRUE], "True")

gprmc_lat(segs, f1, la) ==
    IF ~la.ok THEN Outcome(f1, "False")
    ELSE gprmc_lng([f1 EXCEPT !.lat = la.val], Degrees(segs[6], 3, segs[7], "E"))

gprmc_status(segs, f1) ==
    IF Len(segs) < 3 THEN Outcome(f1, "IndexError")
    ELSE IF segs[3] = <<"A">>
    THEN IF Len(segs) < 5 THEN Outcome(f1, "IndexError")
         ELSE IF segs[5] \notin HEMISPHERES THEN Outcome(f1, "False")
         ELSE IF Len(segs) < 7 THEN Outcome(f1, "IndexError")
         ELSE IF segs[7] \notin HEMISPHERES THEN Outcome(f1, "False")
         ELSE gprmc_lat(segs, f1, Degrees(segs[4], 2, segs[5], "N"))
    ELSE Outcome(ClearFix(f1), "True")

gprmc_time(segs, f, t) ==
    IF ~t.ok THEN Outcome(f, "False")
    ELSE gprmc_status(segs, [f EXCEPT !.utc_time = t.val])

gprmc(segs, f) ==
    IF Len(segs) < 2 THEN Outcome(f, "IndexError")
    ELSE gprmc_time(segs, f, ParseFloat(segs[2]))

\* Mutant of supported_sentences: GLL sentences are handed to gprmc as well.
supported_sentences_WithGll ==
    (<<"G", "P", "R", "M", "C">> :> "gprmc") @@
    (<<"G", "L", "R", "M", "C">> :> "gprmc") @@
    (<<"G", "N", "R", "M", "C">> :> "gprmc") @@
    (<<"G", "P", "G", "L", "L">> :> "gprmc")
\* NMEAparser.supported_sentences: the tag -> parser table.
supported_sentences ==
    (<<"G", "P", "R", "M", "C">> :> "gprmc") @@
    (<<"G", "L", "R", "M", "C">> :> "gprmc") @@
    (<<"G", "N", "R", "M", "C">> :> "gprmc")

\* The call self.supported_sentences[tag](self).
Dispatch(tag, segs, f) == gprmc(segs, f)

----------------------------------------------------------------------------
(* NMEAparser: data stream handler                                         *)

\* The test `10 <= ascii_char <= 126` of update.
IsPrintable(ascii_char) == 10 <= ascii_char /\ ascii_char <= 126

\* Mutant of new_sentence: the character count is not reset.
new_sentence_KeepsCount ==
    /\ gps_segments' = << <<>> >>
    /\ active_segment' = 0
    /\ crc_xor' = 0
    /\ sentence_active' = TRUE
    /\ process_crc' = TRUE
    /\ char_count' = char_count + 1

\* NMEAparser.new_sentence.
new_sentence ==
    /\ gps_segments' = << <<>> >>
    /\ active_segment' = 0
    /\ crc_xor' = 0
    /\ sentence_active' = TRUE
    /\ process_crc' = TRUE
    /\ char_count' = 0

\* Mutant of ChecksumMatches: the value is parsed but not compared.
ChecksumMatches_NoCompare(segment, crc) ==
    LET final_crc == ParseHex(segment) IN
    /\ Len(segment) = 2
    /\ final_crc.ok

\* The checksum test of update on the segment being filled: it has reached
\* two characters, int(segment, 16) does not raise ValueError, and the value
\* equals the running XOR.
ChecksumMatches(segment, crc) ==
    LET final_crc == ParseHex(segment) IN
    /\ Len(segment) = 2
    /\ final_crc.ok
    /\ crc = final_crc.val

\* `if self.process_crc: self.crc_xor ^= ascii_char`.
UpdateCrc(crc, ascii_char, process) ==
    IF process THEN BitXor(crc, ascii_char) ELSE crc

\* `if self.char_count > self.__NMEA_MAX_CHAR_COUNT`.
TooLong(count) == count > NMEA_MAX_CHAR_COUNT

\* Mutant of update: a sentence whose checksum matched stays active.
update_StaysActive(new_char) ==
    LET ascii_char == Ord[new_char] IN
    IF ~IsPrintable(ascii_char)
    THEN \* not a printable character: nothing is touched
         /\ ret' = "False"
         /\ UNCHANGED <<sentence_active, active_segment, process_crc,
                        gps_segments, crc_xor, char_count,
                        utc_time, lat, lng, valid>>
    ELSE IF new_char = "$"
    THEN /\ new_sentence
         /\ ret' = "False"
         /\ UNCHANGED <<utc_time, lat, lng, valid>>
    ELSE IF ~sentence_active
    THEN /\ char_count' = char_count + 1
         /\ ret' = "False"
         /\ UNCHANGED <<sentence_active, active_segment, process_crc,
                        gps_segments, crc_xor, utc_time, lat, lng, valid>>
    ELSE IF new_char = "*"
    THEN \* end of the fields: returns before the CRC update and the length check
         /\ char_count' = char_count + 1
         /\ process_crc' = FALSE
         /\ active_segment' = active_segment + 1
         /\ gps_segments' = Append(gps_segments, <<>>)
         /\ ret' = "False"
         /\ UNCHANGED <<sentence_active, crc_xor, utc_time, lat, lng, valid>>
    ELSE
    \E segs \in {IF new_char = ","
                 THEN Append(gps_segments, <<>>)
                 ELSE [gps_segments EXCEPT ![active_segment + 1] = Append(@, new_char)]} :
    \E valid_sentence \in {/\ new_char # ","
                            /\ ~process_crc
                            /\ ChecksumMatches(segs[active_segment + 1], crc_xor)} :
    \E parsed \in {IF valid_sentence /\ segs[1] \in DOMAIN supported_sentences
                    THEN Dispatch(segs[1], segs, Fix)
                    ELSE Outcome(Fix, "False")} :
        /\ char_count' = char_count + 1
        /\ gps_segments' = segs
        /\ active_segment' = IF new_char = "," THEN active_segment + 1 ELSE active_segment
        /\ crc_xor' = UpdateCrc(crc_xor, ascii_char, process_crc)
        /\ UNCHANGED process_crc
        /\ sentence_active' =
              IF TooLong(char_count + 1) THEN FALSE
              ELSE sentence_active
        /\ utc_time' = parsed.fix.utc_time
        /\ lat' = parsed.fix.lat
        /\ lng' = parsed.fix.lng
        /\ valid' = parsed.fix.valid
        /\ ret' = parsed.out

\* NMEAparser.update(new_char), the whole call.  ret' is what the call
\* returns ("True" / "False") or the exception that leaves it.
update(new_char) ==
    LET ascii_char == Ord[new_char] IN
    IF ~IsPrintable(ascii_char)
    THEN \* not a printable character: nothing is touched
         /\ ret' = "False"
         /\ UNCHANGED <<sentence_active, active_segment, process_crc,
                        gps_segments, crc_xor, char_count,
                        utc_time, lat, lng, valid>>
    ELSE IF new_char = "$"
    THEN /\ new_sentence
         /\ ret' = "False"
         /\ UNCHANGED <<utc_time, lat, lng, valid>>
    ELSE IF ~sentence_active
    THEN /\ char_count' = char_count + 1
         /\ ret' = "False"
         /\ UNCHANGED <<sentence_active, active_segment, process_crc,
                        gps_segments, crc_xor, utc_time, lat, lng, valid>>
    ELSE IF new_char = "*"
    THEN \* end of the fields: returns before the CRC update and the length check
         /\ char_count' = char_count + 1
         /\ process_crc' = FALSE
         /\ active_segment' = active_segment + 1
         /\ gps_segments' = Append(gps_segments, <<>>)
         /\ ret' = "False"
         /\ UNCHANGED <<sentence_active, crc_xor, utc_time, lat, lng, valid>>
    ELSE
    \E segs \in {IF new_char = ","
                 THEN Append(gps_segments, <<>>)
                 ELSE [gps_segments EXCEPT ![active_segment + 1] = Append(@, new_char)]} :
    \E valid_sentence \in {/\ new_char # ","
                            /\ ~process_crc
                            /\ ChecksumMatches(segs[active_segment + 1], crc_xor)} :
    \E parsed \in {IF valid_sentence /\ segs[1] \in DOMAIN supported_sentences
                    THEN Dispatch(segs[1], segs, Fix)
                    ELSE Outcome(Fix, "False")} :
        /\ char_count' = char_count + 1
        /\ gps_segments' = segs
        /\ active_segment' = IF new_char = "," THEN active_segment + 1 ELSE active_segment
        /\ crc_xor' = UpdateCrc(crc_xor, ascii_char, process_crc)
        /\ UNCHANGED process_crc
        /\ sentence_active' =
              IF valid_sentence THEN FALSE
              ELSE IF TooLong(char_count + 1) THEN FALSE
              ELSE sentence_active
        /\ utc_time' = parsed.fix.utc_time
        /\ lat' = parsed.fix.lat
        /\ lng' = parsed.fix.lng
        /\ valid' = parsed.fix.valid
        /\ ret' = parsed.out

----------------------------------------------------------------------------
(* The GPS receiver: the character streams fed to update                   *)

\* Bounds of the model.
MaxExtra == 3          \* characters fed beyond the 90-character limit

\* The NMEA checksum of a sentence body: the XOR of its characters.
RECURSIVE XorRange(_, _, _)
XorRange(s, i, j) ==
    IF i > j THEN 0
    ELSE IF i = j THEN Ord[s[i]]
    ELSE BitXor(XorRange(s, i, (i + j) \div 2), XorRange(s, ((i + j) \div 2) + 1, j))
XorAll(s) == XorRange(s, 1, Len(s))

HexChars ==
    <<"0", "1", "2", "3", "4", "5", "6", "7", "8", "9", "A", "B", "C", "D", "E", "F">>
Hex2(n) == <<HexChars[(n \div 16) + 1], HexChars[(n % 16) + 1]>>

RECURSIVE Join(_)
Join(fields) ==
    IF Len(fields) = 1 THEN fields[1]
    ELSE fields[1] \o <<",">> \o Join(Tail(fields))

Fill(c, n) == [k \in 1..n |-> c]

Frame(body, checksum) == <<"$">> \o body \o <<"*">> \o checksum
Sentence(fields) == Frame(Join(fields), Hex2(XorAll(Join(fields))))

GPRMC == <<"G", "P", "R", "M", "C">>
GNRMC == <<"G", "N", "R", "M", "C">>
GLRMC == <<"G", "L", "R", "M", "C">>
GPGLL == <<"G", "P", "G", "L", "L">>
GPGGA == <<"G", "P", "G", "G", "A">>
GPXXX == <<"G", "P", "X", "X", "X">>

UtcFields == {<<"1", "2", "3", "5", "1", "9">>, <<"1", "2", "X">>}
StatusFields == {<<"A">>, <<"V">>}
LatFields == {<<"4", "8", "0", "7", ".", "0", "3", "8">>, <<"4", "8", "X", "7", ".", "0", "3", "8">>}
NSFields == {<<"N">>, <<"S">>, <<"X">>}
LngFields == {<<"0", "1", "1", "3", "1", ".", "0", "0", "0">>, <<"0", "1", "1", "3", "X", ".", "0", "0", "0">>}
EWFields == {<<"E">>, <<"W">>, <<"X">>}

\* RMC sentences: tag, UTC time, status, latitude, N/S, longitude, E/W, each
\* field well-formed or not, and the sentence cut after any number of fields.
RmcFields ==
    {<<GPRMC, u, st, la, ns, lo, ew>> :
        u \in UtcFields, st \in StatusFields, la \in LatFields,
        ns \in NSFields, lo \in LngFields, ew \in EWFields}
RmcLayouts == {SubSeq(f, 1, k) : f \in RmcFields, k \in 1..7}

\* The RMC sentence of the round-trip example, with its checksum as printed.
RmcExample ==
    Frame(Join(<<GPRMC, <<"1", "2", "3", "5", "1", "9">>, <<"A">>, <<"4", "8", "0", "7", ".", "0", "3", "8">>, <<"N">>, <<"0", "1", "1", "3", "1", ".", "0", "0", "0">>,
                 <<"E">>, <<"0", "2", "2", ".", "4">>, <<"0", "8", "4", ".", "4">>, <<"2", "3", "0", "3", "9", "4">>, <<"0", "0", "3", ".", "1">>, <<"W">>>>),
          <<"6", "A">>)

\* The same position under the other talker prefixes, as GLL and as GGA
\* sentences, and under a tag no receiver sends.
GoodRmc(tag) ==
    Sentence(<<tag, <<"1", "2", "3", "5", "1", "9">>, <<"A">>, <<"4", "8", "0", "7", ".", "0", "3", "8">>, <<"N">>, <<"0", "1", "1", "3", "1", ".", "0", "0", "0">>, <<"E">>>>)
GllExample ==
    Sentence(<<GPGLL, <<"4", "8", "0", "7", ".", "0", "3", "8">>, <<"N">>, <<"0", "1", "1", "3", "1", ".", "0", "0", "0">>, <<"E">>, <<"1", "2", "3", "5", "1", "9">>, <<"A">>>>)
GgaExample ==
    Sentence(<<GPGGA, <<"1", "2", "3", "5", "1", "9">>, <<"4", "8", "0", "7", ".", "0", "3", "8">>, <<"N">>, <<"0", "1", "1", "3", "1", ".", "0", "0", "0">>, <<"E">>, <<"1">>,
               <<"0", "8">>, <<"0", ".", "9">>, <<"5", "4", "5", ".", "4">>, <<"M">>, <<"4", "6", ".", "9">>, <<"M">>, <<>>, <<>>>>)
OtherSentences ==
    {RmcExample, GoodRmc(GNRMC), GoodRmc(GLRMC), GoodRmc(GPXXX), GllExample, GgaExample}

\* What the parser may hold before the sentence under test: nothing (a fresh
\* parser) or a valid southern / western fix.
PriorFix ==
    Sentence(<<GPRMC, <<"0", "0", "0", "0", "0", "1">>, <<"A">>, <<"1", "0", "3", "0", ".", "0", "0", "0">>, <<"S">>, <<"0", "2", "0", "1", "5", ".", "0", "0", "0">>, <<"W">>>>)
Priors == {<<>>, PriorFix}

\* A scenario is a stream with what is known about how it was built: its kind,
\* where the sentence under test starts in it (after the prior sentence), and
\* the byte a corruption put in.
Scenario(kind, prior, chars, byte) ==
    [kind |-> kind, chars |-> prior \o chars, start |-> Len(prior), byte |-> byte]

\* 1. A sentence with its correct checksum, after each prior state.
SentenceScenarios ==
    {Scenario("sentence", p, Sentence(l), "") : p \in Priors, l \in RmcLayouts}
    \cup {Scenario("sentence", p, o, "") : p \in Priors, o \in OtherSentences}

\* 2. A body followed by a correct, a wrong or a malformed checksum, and then
\*    by nothing, or by a further separator and the correct checksum.
ChecksumBodies ==
    {Join(<<GPRMC, <<"1">>, <<"V">>>>),
     Join(<<GPRMC, <<"1", "2", "3", "5", "1", "9">>, <<"A">>, <<"4", "8", "0", "7", ".", "0", "3", "8">>, <<"N">>, <<"0", "1", "1", "3", "1", ".", "0", "0", "0">>, <<"E">>>>),
     Join(<<GPXXX, <<"1">>>>)}
Checksums(body) ==
    {Hex2(XorAll(body)), Hex2(BitXor(XorAll(body), 1)), <<"0", "0">>,
     <<"Z", "Z">>, <<"5", "Z">>, <<"-", "0">>}
Continuations(body) ==
    {<<>>, Hex2(XorAll(body)), <<",">> \o Hex2(XorAll(body)),
     <<"*">> \o Hex2(XorAll(body)), <<",", "Z", ",">> \o Hex2(XorAll(body))}
ChecksumScenarios ==
    UNION {{Scenario("checksum", p, Frame(b, c) \o more, "") :
                p \in Priors, c \in Checksums(b), more \in Continuations(b)} :
           b \in ChecksumBodies}

\* 3. A well-formed, checksum-correct sentence with one byte strictly
\*    between `$` and `*` replaced by a different byte.
CorruptBases ==
    {Sentence(<<GPRMC, <<"1", "1", "2", "2", "3", "3", ".", "4", "4">>, <<"V">>, <<"3", "3", "0", "0", ".", "0", "0", "0">>, <<"N">>, <<"0", "1", "1", "3", "1", ".", "0", "0", "0">>, <<"E">>>>),
     GoodRmc(GPRMC)}
CorruptBytes == {"$", "*", ",", ".", "-", "0", "3", "A", "V", "X", "NUL", "DEL"}
CorruptPlaces(b) == {k \in 2..Len(b) : k < IndexOf(b, "*")}
CorruptScenarios ==
    UNION {{Scenario("corrupt", p, [x[1] EXCEPT ![x[2]] = byte], byte) :
                p \in Priors, byte \in CorruptBytes \ {x[1][x[2]]}} :
           x \in UNION {{<<b, at>> : at \in CorruptPlaces(b)} : b \in CorruptBases}}

\* 4. A `$` followed by more accepted characters than the limit allows, all
\*    the same, and then by a well-formed sentence; and checksum-correct RMC
\*    sentences whose body is about as long as the limit.
FillChars == {"X", ",", "*", "0"}
OverflowScenarios ==
    {Scenario("overflow", <<>>,
              <<"$">> \o Fill(c, NMEA_MAX_CHAR_COUNT + MaxExtra) \o RmcExample, "") :
        c \in FillChars}
    \cup
    {Scenario("long", <<>>, Sentence(<<GPRMC, <<"1">>, <<"V">>, Fill("X", n)>>), "") :
        n \in (NMEA_MAX_CHAR_COUNT - 14)..(NMEA_MAX_CHAR_COUNT - 10 + MaxExtra)}

\* 5. A sentence cut anywhere, the checksum included, by the `$` of the next.
InterruptScenarios ==
    {Scenario("interrupt", <<>>, SubSeq(GoodRmc(GPRMC), 1, k) \o RmcExample, "") :
        k \in 1..Len(GoodRmc(GPRMC))}

\* 6. A sentence with a stray unprintable character somewhere in it.
Insert(s, k, c) == SubSeq(s, 1, k) \o <<c>> \o SubSeq(s, k + 1, Len(s))
NoiseScenarios ==
    {Scenario("noise", p, Insert(GoodRmc(GPRMC), k, c), c) :
        p \in Priors, k \in 0..Len(GoodRmc(GPRMC)), c \in {"NUL", "DEL"}}

\* 7. A valid RMC sentence whose latitude carries a longitude letter and
\*    whose longitude carries a latitude letter.
HemisphereScenarios ==
    {Scenario("hemisphere", <<>>,
              Sentence(<<GPRMC, <<"1", "2", "3", "5", "1", "9">>, <<"A">>,
                         <<"4", "8", "0", "7", ".", "0", "3", "8">>, <<ns>>,
                         <<"0", "1", "1", "3", "1", ".", "0", "0", "0">>, <<ew>>>>), "") :
        ns \in {"E", "W"}, ew \in {"N", "S"}}

Scenarios ==
    SentenceScenarios \cup ChecksumScenarios \cup CorruptScenarios
    \cup OverflowScenarios \cup InterruptScenarios \cup NoiseScenarios
    \cup HemisphereScenarios

----------------------------------------------------------------------------
(* SIM800L.execute: the AT command channel                                 *)

VARIABLES
    exec_pc,            \* where the call is: "idle", "reading", "returned", "raised"
    command,            \* the ATCommand being executed: [string, timeout, end]
    clean_output,       \* the clean_output argument
    pre_end,            \* execute's local pre_end
    output,             \* execute's local output
    empty_reads,        \* execute's local empty_reads
    processed_lines,    \* execute's local processed_lines
    uart_tx,            \* everything written to the UART, one entry per write
    sleeps,             \* time.sleep(1) calls of the current call
    lines_read,         \* non-empty lines readline has returned to the current call
    uart_rx,            \* those lines, in the order they were read
    interleaved,        \* whether the current call has read a non-empty line
                        \* after an empty read
    error,              \* the exception that ended the call, "" when none
    message,            \* the text the exception carries
    result              \* the string the call returned

at_vars ==
    <<exec_pc, command, clean_output, pre_end, output, empty_reads,
      processed_lines, uart_tx, sleeps, lines_read, uart_rx, interleaved, error,
      message, result>>

\* Bounds of the model: the non-empty lines the modem sends during one call,
\* and the calls made one after the other.
MaxLines == 2
MaxCalls == 1
MaxCount == 4          \* processed_lines is counted modulo MaxCount
MaxOutput == 8         \* characters of output a call that may read forever keeps

CRLF == <<"\r", "\n">>

\* ATCommand(string, timeout, end).
ATCommand(string, timeout, end) == [string |-> string, timeout |-> timeout, end |-> end]

\* The commands of class Commands the model executes.
productInfo == ATCommand(<<"A", "T", "I">>, 10, <<"O", "K">>)
isSIMInserted == ATCommand(<<"A", "T", "+", "C", "S", "M", "I", "N", "S", "?">>, 3, <<"O", "K">>)
HTTPActionGET == ATCommand(<<"A", "T", "+", "H", "T", "T", "P", "A", "C", "T", "I", "O", "N", "=", "0">>, 30, <<"+", "H", "T", "T", "P", "A", "C", "T", "I", "O", "N">>)
HTTPData == ATCommand(<<"A", "T", "+", "H", "T", "T", "P", "D", "A", "T", "A", "=", "2", ",", "5", "0", "0", "0">>, 3, <<"D", "O", "W", "N", "L", "O", "A", "D">>)
HTTPActionPOST == ATCommand(<<"A", "T", "+", "H", "T", "T", "P", "A", "C", "T", "I", "O", "N", "=", "1">>, 30, <<"+", "H", "T", "T", "P", "A", "C", "T", "I", "O", "N">>)
setHTTPParameterContent(content) ==
    ATCommand(<<"A", "T", "+", "H", "T", "T", "P", "P", "A", "R", "A", "=", "\"", "C", "O", "N", "T", "E", "N", "T", "\"", ",", "\"">> \o content \o <<"\"">>, 3, <<"O", "K">>)
dumpData(data) == ATCommand(data, 3, <<"O", "K">>)
HTTPRead == ATCommand(<<"A", "T", "+", "H", "T", "T", "P", "R", "E", "A", "D">>, 30, <<"O", "K">>)
\* execute takes any ATCommand: two whose terminator is also the beginning of
\* an error line.
endsOnError == ATCommand(<<"A", "T">>, 1, <<"E", "R", "R", "O", "R">>)
endsOnCME == ATCommand(<<"A", "T">>, 1, <<"+", "C", "M", "E">>)
CommandsModelled ==
    {productInfo, isSIMInserted, HTTPActionGET, HTTPData, HTTPRead,
     endsOnError, endsOnCME}

\* What uart.readline() may return while a call waits: nothing (<<>>), or
\* one of the lines a SIM800L sends.
ModemLines ==
    {<<"E", "R", "R", "O", "R", "\r", "\n">>, <<"+", "C", "M", "E", " ", "E", "R", "R", "O", "R", ":", " ", "1", "0", "\r", "\n">>, <<"O", "K", "\r", "\n">>, <<"\r", "\n">>, <<"D", "O", "W", "N", "L", "O", "A", "D", "\r", "\n">>,
     <<"+", "H", "T", "T", "P", "A", "C", "T", "I", "O", "N", ":", " ", "0", ",", "2", "0", "0", ",", "2", "\r", "\n">>, <<"+", "H", "T", "T", "P", "R", "E", "A", "D", ":", " ", "2", "\r", "\n">>, <<"A", "T", "I", "\r", "\r", "\n">>, <<"h", "i", "\r", "\n">>}

\* str.startswith, str.endswith.
StartsWith(s, prefix) == Len(s) >= Len(prefix) /\ SubSeq(s, 1, Len(prefix)) = prefix
EndsWith(s, suffix) ==
    Len(s) >= Len(suffix) /\ SubSeq(s, Len(s) - Len(suffix) + 1, Len(s)) = suffix

\* str.replace(old, ""): every occurrence of old, left to right, not overlapping.
FindFrom(s, old, i) ==
    LET at == {k \in i..(Len(s) - Len(old) + 1) : SubSeq(s, k, k + Len(old) - 1) = old}
    IN  IF at = {} THEN 0 ELSE CHOOSE k \in at : \A j \in at : k <= j
RECURSIVE RemoveFrom(_, _, _)
RemoveFrom(s, old, i) ==
    IF FindFrom(s, old, i) = 0 THEN SubSeq(s, i, Len(s))
    ELSE SubSeq(s, i, FindFrom(s, old, i) - 1)
         \o RemoveFrom(s, old, FindFrom(s, old, i) + Len(old))
Remove(s, old) == RemoveFrom(s, old, 1)

\* The post-processing of execute, from the end of the read loop to `return`.
PostProcess(out, cmd, clean) ==
    LET o1 == Remove(out, cmd.string \o <<"\r", "\r", "\n">>)
        o2 == IF EndsWith(o1, CRLF) THEN SubSeq(o1, 1, Len(o1) - 2) ELSE o1
        o3 == Remove(o2, <<"\r">>)
        o4 == Remove(o3, <<"\n", "\n">>)
        o5 == IF StartsWith(o4, <<"\n">>) THEN Tail(o4) ELSE o4
        o6 == IF EndsWith(o5, <<"\n">>) THEN SubSeq(o5, 1, Len(o5) - 1) ELSE o5
    IN  IF clean THEN o6 ELSE o2

\* str(n) for the timeouts of the commands (0 <= n < 100).
DecStr(n) ==
    IF n < 10 THEN <<HexChars[n + 1]>>
    ELSE <<HexChars[(n \div 10) + 1], HexChars[(n % 10) + 1]>>

\* The text of the TimeoutError of execute.
TimeoutMessage(cmd) ==
    <<"T", "i", "m", "e", "o", "u", "t", " ", "f", "o", "r", " ", "c", "o", "m",
      "m", "a", "n", "d", " ", "\"">> \o cmd.string
    \o <<"\"", " ", "(", "t", "i", "m", "e", "o", "u", "t", "=">>
    \o DecStr(cmd.timeout) \o <<")">>

\* `if empty_reads > command.timeout`.
TimedOut(reads, cmd) == reads > cmd.timeout

\* Mutant of ExecuteBegin: the command is written twice.
ExecuteBegin_WritesTwice(cmd, clean) ==
    /\ exec_pc \in {"idle", "returned", "raised"}
    /\ Len(uart_tx) < MaxCalls
    /\ exec_pc' = "reading"
    /\ command' = cmd
    /\ clean_output' = clean
    /\ uart_tx' = Append(Append(uart_tx, cmd.string \o CRLF), cmd.string \o CRLF)
    /\ pre_end' = TRUE
    /\ output' = <<>>
    /\ empty_reads' = 0
    /\ processed_lines' = 0
    /\ sleeps' = 0
    /\ lines_read' = 0
    /\ uart_rx' = <<>>
    /\ interleaved' = FALSE
    /\ error' = ""
    /\ message' = <<>>
    /\ result' = <<>>

\* execute up to its read loop: the command is written and the locals are set.
ExecuteBegin(cmd, clean) ==
    /\ exec_pc \in {"idle", "returned", "raised"}
    /\ Len(uart_tx) < MaxCalls
    /\ exec_pc' = "reading"
    /\ command' = cmd
    /\ clean_output' = clean
    /\ uart_tx' = Append(uart_tx, cmd.string \o CRLF)
    /\ pre_end' = TRUE
    /\ output' = <<>>
    /\ empty_reads' = 0
    /\ processed_lines' = 0
    /\ sleeps' = 0
    /\ lines_read' = 0
    /\ uart_rx' = <<>>
    /\ interleaved' = FALSE
    /\ error' = ""
    /\ message' = <<>>
    /\ result' = <<>>

\* Mutant of LineKind: the terminator is looked for before the error lines.
LineKind_EndFirst(line, cmd, pre) ==
    IF line = cmd.end \o CRLF THEN "end"
    ELSE IF pre /\ StartsWith(line, cmd.end) THEN "pre_end"
    ELSE IF line = <<"E", "R", "R", "O", "R", "\r", "\n">> THEN "GenericATError"
    ELSE IF StartsWith(line, <<"+", "C", "M", "E", " ", "E", "R", "R", "O", "R">>)
    THEN "SpecificATError"
    ELSE "output"

\* What execute takes a non-empty line for, in the order of its tests: an
\* error, the terminator, the terminator after a pre-end, or output.
LineKind(line, cmd, pre) ==
    IF line = <<"E", "R", "R", "O", "R", "\r", "\n">> THEN "GenericATError"
    ELSE IF StartsWith(line, <<"+", "C", "M", "E", " ", "E", "R", "R", "O", "R">>)
    THEN "SpecificATError"
    ELSE IF line = cmd.end \o CRLF THEN "end"
    ELSE IF pre /\ StartsWith(line, cmd.end) THEN "pre_end"
    ELSE "output"

\* The text the exception of an error line carries.
ErrorMessage(kind, line, cmd) ==
    IF kind = "GenericATError"
    THEN <<"G", "o", "t", " ", "g", "e", "n", "e", "r", "i", "c", " ", "A", "T", " ", "e", "r", "r", "o", "r">>
    ELSE line \o <<"\n", "E", "r", "r", "o", "r", " ", "i", "n", " ", "c", "o", "m", "m", "a", "n", "d", ":">> \o cmd.string

\* `if command.string == "AT+HTTPREAD" and line_str.startswith("+HTTPREAD:")`.
IsReadHeader(line, cmd) ==
    /\ cmd.string = <<"A", "T", "+", "H", "T", "T", "P", "R", "E", "A", "D">>
    /\ StartsWith(line, <<"+", "H", "T", "T", "P", "R", "E", "A", "D", ":">>)

\* `processed_lines += 1`.  The counter is never read by execute; the model
\* counts it modulo MaxCount, so that a call that reads forever has finitely
\* many states.
Counted(n) == (n + 1) % MaxCount

\* Mutant of ExecuteRead: a non-empty line resets the count of empty reads.
ExecuteRead_ResetsCounter(line) ==
    /\ exec_pc = "reading"
    /\ UNCHANGED <<command, clean_output, uart_tx>>
    /\ IF line = <<>>
       THEN /\ sleeps' = sleeps + 1
            /\ empty_reads' = empty_reads + 1
            /\ IF TimedOut(empty_reads + 1, command)
               THEN /\ exec_pc' = "raised"
                    /\ error' = "TimeoutError"
                    /\ message' = TimeoutMessage(command)
               ELSE UNCHANGED <<exec_pc, error, message>>
            /\ UNCHANGED <<pre_end, output, processed_lines, result>>
       ELSE /\ UNCHANGED sleeps
            /\ empty_reads' = 0
            /\ \E kind \in {LineKind(line, command, pre_end)} :
               IF kind \in {"GenericATError", "SpecificATError"}
               THEN /\ exec_pc' = "raised"
                    /\ error' = kind
                    /\ message' = ErrorMessage(kind, line, command)
                    /\ UNCHANGED <<pre_end, output, processed_lines, result>>
               ELSE IF kind = "end"
               THEN /\ exec_pc' = "returned"
                    /\ result' = PostProcess(output, command, clean_output)
                    /\ UNCHANGED <<pre_end, output, processed_lines, error, message>>
               ELSE IF kind = "pre_end"
               THEN /\ exec_pc' = "returned"
                    /\ output' = output \o line
                    /\ result' = PostProcess(output \o line, command, clean_output)
                    /\ UNCHANGED <<pre_end, processed_lines, error, message>>
               ELSE /\ pre_end' = (line = CRLF)
                    /\ processed_lines' = Counted(processed_lines)
                    /\ output' = IF IsReadHeader(line, command) THEN output
                                  ELSE output \o line
                    /\ UNCHANGED <<exec_pc, error, message, result>>

\* One iteration of the read loop of execute: readline() returned line.
ExecuteRead(line) ==
    /\ exec_pc = "reading"
    /\ UNCHANGED <<command, clean_output, uart_tx>>
    /\ IF line = <<>>
       THEN /\ sleeps' = sleeps + 1
            /\ empty_reads' = empty_reads + 1
            /\ IF TimedOut(empty_reads + 1, command)
               THEN /\ exec_pc' = "raised"
                    /\ error' = "TimeoutError"
                    /\ message' = TimeoutMessage(command)
               ELSE UNCHANGED <<exec_pc, error, message>>
            /\ UNCHANGED <<pre_end, output, processed_lines, result>>
       ELSE /\ UNCHANGED <<sleeps, empty_reads>>
            /\ \E kind \in {LineKind(line, command, pre_end)} :
               IF kind \in {"GenericATError", "SpecificATError"}
               THEN /\ exec_pc' = "raised"
                    /\ error' = kind
                    /\ message' = ErrorMessage(kind, line, command)
                    /\ UNCHANGED <<pre_end, output, processed_lines, result>>
               ELSE IF kind = "end"
               THEN /\ exec_pc' = "returned"
                    /\ result' = PostProcess(output, command, clean_output)
                    /\ UNCHANGED <<pre_end, output, processed_lines, error, message>>
               ELSE IF kind = "pre_end"
               THEN /\ exec_pc' = "returned"
                    /\ output' = output \o line
                    /\ result' = PostProcess(output \o line, command, clean_output)
                    /\ UNCHANGED <<pre_end, processed_lines, error, message>>
               ELSE /\ pre_end' = (line = CRLF)
                    /\ processed_lines' = Counted(processed_lines)
                    /\ output' = IF IsReadHeader(line, command) THEN output
                                  ELSE output \o line
                    /\ UNCHANGED <<exec_pc, error, message, result>>

----------------------------------------------------------------------------
(* SIM800L.execute as a function of the lines the modem sends              *)

\* The read loop of execute over the lines the modem sends, one after the
\* other, with pre_end = pre and output = out so far; when the lines run out
\* every further readline() returns nothing and the call times out.  The
\* result is how the loop ends and the output it has gathered.
RECURSIVE ReadLoop(_, _, _, _)
ReadLoop(cmd, lines, pre, out) ==
    IF lines = <<>> THEN [ends |-> "TimeoutError", output |-> out]
    ELSE IF LineKind(lines[1], cmd, pre) \in {"GenericATError", "SpecificATError"}
    THEN [ends |-> LineKind(lines[1], cmd, pre), output |-> out]
    ELSE IF LineKind(lines[1], cmd, pre) = "end"
    THEN [ends |-> "break", output |-> out]
    ELSE IF LineKind(lines[1], cmd, pre) = "pre_end"
    THEN [ends |-> "break", output |-> out \o lines[1]]
    ELSE ReadLoop(cmd, Tail(lines), lines[1] = CRLF,
                  IF IsReadHeader(lines[1], cmd) THEN out ELSE out \o lines[1])

\* What a call of execute gives its caller: the exception it raises (error,
\* "" when it returns) and the string it returns.
Executed(loop, cmd, clean) ==
    IF loop.ends = "break"
    THEN [error |-> "", result |-> PostProcess(loop.output, cmd, clean)]
    ELSE [error |-> loop.ends, result |-> <<>>]

execute(cmd, lines, clean) == Executed(ReadLoop(cmd, lines, TRUE, <<>>), cmd, clean)

----------------------------------------------------------------------------
(* Strings                                                                 *)

\* str.split(sep) for a one-character separator.
RECURSIVE SplitBy(_, _)
SplitBy(s, sep) ==
    IF IndexOf(s, sep) = 0 THEN <<s>>
    ELSE <<SubSeq(s, 1, IndexOf(s, sep) - 1)>> \o SplitBy(SliceFrom(s, IndexOf(s, sep)), sep)

\* str.replace(c, "") for one character.
Without(s, c) == SelectSeq(s, LAMBDA x : x # c)

\* str.strip().
Blank == {" ", "\r", "\n", "\t"}
RECURSIVE Strip(_)
Strip(s) ==
    IF s = <<>> THEN s
    ELSE IF s[1] \in Blank THEN Strip(Tail(s))
    ELSE IF s[Len(s)] \in Blank THEN Strip(SubSeq(s, 1, Len(s) - 1))
    ELSE s

\* str.lower() on the letters the model's provider names are written with.
LowerCase ==
    [c \in {"A", "B", "I", "J", "V"} |->
        CASE c = "A" -> "a" [] c = "B" -> "b" [] c = "I" -> "i"
          [] c = "J" -> "j" [] c = "V" -> "v"]
Lower(s) == [k \in 1..Len(s) |-> IF s[k] \in DOMAIN LowerCase THEN LowerCase[s[k]] ELSE s[k]]

----------------------------------------------------------------------------
(* SIM800L: the commands of the session and what the modem answers         *)

enableErrorCodes == ATCommand(<<"A", "T", "+", "C", "M", "E", "E", "=", "2">>, 3, <<"O", "K">>)
checkSSL == ATCommand(<<"A", "T", "+", "H", "T", "T", "P", "S", "S", "L", "?">>, 3, <<"O", "K">>)
getServiceProviderNameCmd == ATCommand(<<"A", "T", "+", "C", "S", "P", "N", "?">>, 3, <<"O", "K">>)
setBearerGPRS == ATCommand(<<"A", "T", "+", "S", "A", "P", "B", "R", "=", "3", ",", "1", ",", "\"", "C", "O", "N", "T", "Y", "P", "E", "\"", ",", "\"", "G", "P", "R", "S", "\"">>, 3, <<"O", "K">>)
setBearerAPN(apn) == ATCommand(<<"A", "T", "+", "S", "A", "P", "B", "R", "=", "3", ",", "1", ",", "\"", "A", "P", "N", "\"", ",", "\"">> \o apn \o <<"\"">>, 3, <<"O", "K">>)
setBearerUsername(username) ==
    ATCommand(<<"A", "T", "+", "S", "A", "P", "B", "R", "=", "3", ",", "1", ",", "\"", "U", "S", "E", "R", "\"", ",", "\"">> \o username \o <<"\"">>, 3, <<"O", "K">>)
setBearerPassword(password) ==
    ATCommand(<<"A", "T", "+", "S", "A", "P", "B", "R", "=", "3", ",", "1", ",", "\"", "P", "W", "D", "\"", ",", "\"">> \o password \o <<"\"">>, 3, <<"O", "K">>)
openBearer == ATCommand(<<"A", "T", "+", "S", "A", "P", "B", "R", "=", "1", ",", "1">>, 3, <<"O", "K">>)
closeBearer == ATCommand(<<"A", "T", "+", "S", "A", "P", "B", "R", "=", "0", ",", "1">>, 3, <<"O", "K">>)
bearerStatus == ATCommand(<<"A", "T", "+", "S", "A", "P", "B", "R", "=", "2", ",", "1">>, 30, <<"O", "K">>)
initHTTPCmd == ATCommand(<<"A", "T", "+", "H", "T", "T", "P", "I", "N", "I", "T">>, 3, <<"O", "K">>)
closeHTTPCmd == ATCommand(<<"A", "T", "+", "H", "T", "T", "P", "T", "E", "R", "M">>, 3, <<"O", "K">>)
setHTTPParameterURL(url) == ATCommand(<<"A", "T", "+", "H", "T", "T", "P", "P", "A", "R", "A", "=", "\"", "U", "R", "L", "\"", ",", "\"">> \o url \o <<"\"">>, 3, <<"O", "K">>)
setHTTPParameterCID == ATCommand(<<"A", "T", "+", "H", "T", "T", "P", "P", "A", "R", "A", "=", "\"", "C", "I", "D", "\"", ",", "1">>, 3, <<"O", "K">>)
signalQuality == ATCommand(<<"A", "T", "+", "C", "S", "Q">>, 3, <<"O", "K">>)
batteryCharge == ATCommand(<<"A", "T", "+", "C", "B", "C">>, 3, <<"O", "K">>)
checkNetworkRegistration == ATCommand(<<"A", "T", "+", "C", "R", "E", "G", "?">>, 3, <<"O", "K">>)
scanOperators == ATCommand(<<"A", "T", "+", "C", "O", "P", "S", "=", "?">>, 60, <<"O", "K">>)
currentOperator == ATCommand(<<"A", "T", "+", "C", "O", "P", "S", "?">>, 3, <<"O", "K">>)
setCellInfoDetails == ATCommand(<<"A", "T", "+", "C", "N", "E", "T", "S", "C", "A", "N", "=", "1">>, 3, <<"O", "K">>)
scanCellInfo == ATCommand(<<"A", "T", "+", "C", "N", "E", "T", "S", "C", "A", "N">>, 60, <<"O", "K">>)

\* network_registration.
network_registration ==
    (<<"0">> :> <<"N", "o", "t", " ", "r", "e", "g", "i", "s", "t", "e", "r", "e", "d", ",", " ", "M", "T", " ", "i", "s", " ", "n", "o", "t", " ", "c", "u", "r", "r", "e", "n", "t", "l", "y", " ", "s", "e", "a", "r", "c", "h", "i", "n", "g", " ", "a", " ", "n", "e", "w", " ", "o", "p", "e", "r", "a", "t", "o", "r", " ", "t", "o", " ", "r", "e", "g", "i", "s", "t", "e", "r", " ", "t", "o">>)
    @@ (<<"1">> :> <<"R", "e", "g", "i", "s", "t", "e", "r", "e", "d", ",", " ", "h", "o", "m", "e", " ", "n", "e", "t", "w", "o", "r", "k">>)
    @@ (<<"2">> :> <<"N", "o", "t", " ", "r", "e", "g", "i", "s", "t", "e", "r", "e", "d", ",", " ", "b", "u", "t", " ", "M", "T", " ", "i", "s", " ", "c", "u", "r", "r", "e", "n", "t", "l", "y", " ", "s", "e", "a", "r", "c", "h", "i", "n", "g", " ", "a", " ", "n", "e", "w", " ", "o", "p", "e", "r", "a", "t", "o", "r", " ", "t", "o", " ", "r", "e", "g", "i", "s", "t", "e", "r", " ", "t", "o">>)
    @@ (<<"3">> :> <<"R", "e", "g", "i", "s", "t", "r", "a", "t", "i", "o", "n", " ", "d", "e", "n", "i", "e", "d">>)
    @@ (<<"4">> :> <<"U", "n", "k", "n", "o", "w", "n">>)
    @@ (<<"5">> :> <<"R", "e", "g", "i", "s", "t", "e", "r", "e", "d", ",", " ", "r", "o", "a", "m", "i", "n", "g">>)

\* apn_list.
apn_list ==
    (<<"a", "i", "r", "t", "e", "l">> :> <<"a", "i", "r", "t", "e", "l", "g", "p", "r", "s", ".", "c", "o", "m">>) @@ (<<"b", "s", "n", "l">> :> <<"b", "s", "n", "l", "n", "e", "t">>) @@
    (<<"i", "d", "e", "a">> :> <<"i", "n", "t", "e", "r", "n", "e", "t">>) @@ (<<"j", "i", "o">> :> <<"j", "i", "o", "n", "e", "t">>)

\* The lines of an answer "OK" to cmd: the echo, the payload lines, a blank
\* line and the terminator.
Echo(cmd) == cmd.string \o <<"\r", "\r", "\n">>
Answer(cmd, payload) ==
    <<Echo(cmd)>> \o [k \in 1..Len(payload) |-> payload[k] \o CRLF] \o <<CRLF, <<"O", "K", "\r", "\n">>>>

\* The payloads the modem may send to the read-only queries: for each one
\* that has the layout the query expects and others that have not.
CellLine ==
    <<"O", "p", "e", "r", "a", "t", "o", "r", ":", "\"", "A", "\"", ",", "M", "C", "C", ":", "4", "0", "4", ",", "M", "N", "C", ":", "4", "5", ",", "R", "x", "l", "e", "v", ":", "3", "0", ",", "C", "e", "l", "l", "i", "d", ":", "1", "A", "2", "B", ",", "A", "r", "f", "c", "n", ":", "8", "0", ",", "L", "a", "c", ":", "1", "F", ",", "B", "s", "i", "c", ":", "2", "C">>
QueryPayloads(cmd) ==
    IF cmd = signalQuality THEN {<<<<"+", "C", "S", "Q", ":", " ", "1", "5", ",", "0">>>>, <<<<"+", "C", "S", "Q", ":", " ", "1", "5">>>>}
    ELSE IF cmd = batteryCharge THEN {<<<<"+", "C", "B", "C", ":", " ", "0", ",", "8", "0", ",", "4", "2", "0", "0">>>>, <<<<"+", "C", "B", "C", ":", " ", "0", ",", "8", "0">>>>}
    ELSE IF cmd = checkNetworkRegistration
    THEN {<<<<"+", "C", "R", "E", "G", ":", " ", "0", ",", "1">>>>, <<<<"+", "C", "R", "E", "G", ":", " ", "0">>>>, <<<<"+", "C", "R", "E", "G", ":", " ", "0", ",", "9">>>>}
    ELSE IF cmd = scanOperators
    THEN {<<<<"+", "C", "O", "P", "S", ":", " ", "(", "2", ",", "\"", "A", "\"", ",", "\"", "A", "\"", ",", "\"", "1", "\"", ")", ",", "(", "1", ",", "\"", "B", "\"", ",", "\"", "B", "\"", ",", "\"", "2", "\"", ")", ",", ",", "(", "0", "-", "4", ")", ",", "(", "0", "-", "2", ")">>>>,
          <<<<"+", "C", "O", "P", "S", ":", " ", "(", "2", ",", "\"", "A", "\"", ",", "\"", "A", "\"", ")", ",", ",", "(", "0", "-", "4", ")", ",", "(", "0", "-", "2", ")">>>>}
    ELSE IF cmd = currentOperator
    THEN {<<<<"+", "C", "O", "P", "S", ":", " ", "0", ",", "0", ",", "\"", "A", "\"">>>>, <<<<"+", "C", "O", "P", "S", ":", " ", "0">>>>, <<>>}
    ELSE IF cmd = scanCellInfo
    THEN {<<CellLine>>, <<<<"O", "p", "e", "r", "a", "t", "o", "r", ":", "\"", "A", "\"", ",", "M", "C", "C", ":", "4", "0", "4">>>>,
          <<CellLine, <<"O", "p", "e", "r", "a", "t", "o", "r", ":", "A", ",", "M", "C", "C", ":", "4", "0", "4", ",", "M", "N", "C", ":", "4", "5", ",", "R", "x", "l", "e", "v", ":", "3", "0", ",", "C", "e", "l", "l", "i", "d", ":", "1", "A", "2", "B", ",", "A", "r", "f", "c", "n", ":", "8", "0", ",", "L", "a", "c", ":", "1", "F", ",", "B", "s", "i", "c", ":", "2", "C">>>>}
    ELSE {<<>>}

\* The payloads the modem may send with its "OK", by command.
Payloads(cmd) ==
    IF cmd = productInfo THEN {<<<<"S", "I", "M", "8", "0", "0", " ", "R", "1", "4", ".", "1", "8">>>>}
    ELSE IF cmd = isSIMInserted THEN {<<<<"+", "C", "S", "M", "I", "N", "S", ":", " ", "0", ",", "1">>>>, <<<<"+", "C", "S", "M", "I", "N", "S", ":", " ", "0", ",", "0">>>>}
    ELSE IF cmd = checkSSL THEN {<<<<"+", "H", "T", "T", "P", "S", "S", "L", ":", " ", "0">>>>, <<<<"+", "C", "I", "P", "S", "S", "L", ":", " ", "(", "0", "-", "1", ")">>>>}
    ELSE IF cmd = getServiceProviderNameCmd
    THEN {<<<<"+", "C", "S", "P", "N", ":", " ", "\"", "A", "i", "r", "t", "e", "l", "\"", ",", "1">>>>, <<<<"+", "C", "S", "P", "N", ":", " ", "\"", "V", "o", "d", "a", "\"", ",", "1">>>>, <<>>}
    ELSE IF cmd = bearerStatus
    THEN {<<<<"+", "S", "A", "P", "B", "R", ":", " ", "1", ",", "1", ",", "\"", "1", "0", ".", "0", ".", "0", ".", "1", "\"">>>>, <<<<"+", "S", "A", "P", "B", "R", ":", " ", "1", ",", "1", ",", "\"", "1", "0", ".", "0", ".", "0", ".", "2", "\"">>>>,
          <<<<"+", "S", "A", "P", "B", "R", ":", " ", "1", ",", "3", ",", "\"", "0", ".", "0", ".", "0", ".", "0", "\"">>>>, <<<<"+", "S", "A", "P", "B", "R", ":", " ", "1", ",", "3">>>>}
    ELSE QueryPayloads(cmd)

\* The answers to the two commands of an HTTP GET that do not end with "OK"
\* after a payload: the action reports its status after the "OK", the read
\* sends a length header and the body.
HTTPAnswers(cmd) ==
    IF cmd = HTTPData
    THEN {<<Echo(cmd), <<"D", "O", "W", "N", "L", "O", "A", "D", "\r", "\n">>>>,
          <<Echo(cmd), <<"O", "K", "\r", "\n">>>>}
    ELSE IF cmd = HTTPActionPOST
    THEN {<<Echo(cmd), <<"O", "K", "\r", "\n">>, CRLF, <<"+", "H", "T", "T", "P", "A", "C", "T", "I", "O", "N", ":", " ", "1", ",", "2", "0", "0", ",", "2", "\r", "\n">>>>,
          <<Echo(cmd), <<"O", "K", "\r", "\n">>, CRLF, <<"+", "H", "T", "T", "P", "A", "C", "T", "I", "O", "N", ":", " ", "1", "\r", "\n">>>>}
    ELSE IF cmd = HTTPActionGET
    THEN {<<Echo(cmd), <<"O", "K", "\r", "\n">>, CRLF, <<"+", "H", "T", "T", "P", "A", "C", "T", "I", "O", "N", ":", " ", "0", ",", "2", "0", "0", ",", "2", "\r", "\n">>>>,
          <<Echo(cmd), <<"O", "K", "\r", "\n">>, CRLF, <<"+", "H", "T", "T", "P", "A", "C", "T", "I", "O", "N", ":", " ", "0", "\r", "\n">>>>}
    ELSE {<<Echo(cmd), <<"+", "H", "T", "T", "P", "R", "E", "A", "D", ":", " ", "2", "\r", "\n">>, <<"h", "i", "\r", "\n">>, <<"O", "K", "\r", "\n">>>>,
          <<Echo(cmd), <<"+", "H", "T", "T", "P", "R", "E", "A", "D", ":", " ", "4", "\r", "\n">>, <<"h", "\r", "\n">>, <<"i", "\r", "\n">>, <<"O", "K", "\r", "\n">>>>}

\* Everything the modem may do after cmd is written: answer, answer with an
\* error, or stay silent.
Replies(cmd) ==
    (IF cmd \in {HTTPActionGET, HTTPActionPOST, HTTPData, HTTPRead} THEN HTTPAnswers(cmd)
     ELSE {Answer(cmd, p) : p \in Payloads(cmd)})
    \cup {<<Echo(cmd), <<"E", "R", "R", "O", "R", "\r", "\n">>>>, <<Echo(cmd), <<"+", "C", "M", "E", " ", "E", "R", "R", "O", "R", ":", " ", "1", "0", "\r", "\n">>>>, <<>>}

----------------------------------------------------------------------------
(* Specifications                                                          *)

VARIABLES scenario     \* how the stream was built: [kind, start, byte]

VARIABLES
    sharedData,         \* Tracker.sharedData ("" before the first fix)
    sharedDataLock,     \* who holds Tracker.sharedDataLock: "" for nobody,
                        \* "gps" or "net"
    gps_pc,             \* where gpsThread is
    dataString,         \* the local `dataString` of gpsThread
    lastDataString,     \* the local `lastDataString` of gpsThread
    net_pc,             \* where networkingThread is
    currentData,        \* the local `currentData` of networkingThread
    lastData,           \* the local `lastData` of networkingThread
    failedRequests,     \* the local `failedRequests` of networkingThread
    written,            \* the values gpsThread has stored in sharedData
    readAt,             \* how many values were stored when networkingThread
                        \* last read sharedData
    sent,               \* the last request: [data, at], the value handed to
                        \* makeMqttRequest and readAt at that read
    prevAt              \* `at` of the request before it

tracker_vars ==
    <<sharedData, sharedDataLock, gps_pc, dataString, lastDataString, net_pc,
      currentData, lastData, failedRequests, written, readAt, sent, prevAt>>

other_vars == <<nmea_vars, scenario, at_vars, tracker_vars>>

\* The Tracker when start() has started the two threads.
TrackerInit ==
    /\ sharedData = ""
    /\ sharedDataLock = ""
    /\ gps_pc = "read"
    /\ dataString = ""
    /\ lastDataString = ""
    /\ net_pc = "connect"
    /\ currentData = ""
    /\ lastData = ""
    /\ failedRequests = 0
    /\ written = <<>>
    /\ readAt = 0
    /\ sent = [data |-> "", at |-> 0]
    /\ prevAt = 0

\* NMEAparser.__init__.
ParserInit ==
    /\ sentence_active = FALSE
    /\ active_segment = 0
    /\ process_crc = FALSE
    /\ gps_segments = <<>>
    /\ crc_xor = 0
    /\ char_count = 0
    /\ utc_time = Zero
    /\ lat = Zero
    /\ lng = Zero
    /\ valid = FALSE
    /\ pos = 0
    /\ ret = "none"

\* The channel before any call.
ChannelInit ==
    /\ exec_pc = "idle"
    /\ command = productInfo
    /\ clean_output = TRUE
    /\ pre_end = TRUE
    /\ output = <<>>
    /\ empty_reads = 0
    /\ processed_lines = 0
    /\ uart_tx = <<>>
    /\ sleeps = 0
    /\ lines_read = 0
    /\ uart_rx = <<>>
    /\ interleaved = FALSE
    /\ error = ""
    /\ message = <<>>
    /\ result = <<>>

----------------------------------------------------------------------------
(* SIM800L: the session                                                    *)

VARIABLES
    initialized,        \* SIM800L.initialized
    modemInfo,          \* SIM800L.modemInfo (<<>> for None)
    showSpecificErrors, \* SIM800L.showSpecificErrors
    sslSupported,       \* SIM800L.sslSupported
    ipAddr,             \* SIM800L.ipAddr (<<>> for None)
    GPRSinitialized,    \* SIM800L.GPRSinitialized
    HTTPinitialized,    \* SIM800L.HTTPinitialized
    sess_pc,            \* where the running method is: the execute it is about
                        \* to make, "idle" before any call, "done" after one
    method,             \* the method called last
    args,               \* its arguments: [apn, username, password]
    retries,            \* the local `retries` of initialize and connectGPRS
    apn,                \* the local `apn` of connectGPRS
    trace,              \* what the method has done so far: the commands it
                        \* had execute write and its own time.sleep() calls
    heard,              \* the lines the modem sent after the last command of
                        \* the call, <<>> when it stayed silent
    outcome,            \* how the call ended: "returned" or the exception
    retval,             \* what it returned
    before,             \* the three state flags when the call began
    ncalls              \* calls made so far

obj_vars ==
    <<initialized, modemInfo, showSpecificErrors, sslSupported, ipAddr,
      GPRSinitialized, HTTPinitialized>>
frame_vars ==
    <<sess_pc, method, args, retries, apn, trace, heard, outcome, retval, before,
      ncalls>>
sess_vars == <<obj_vars, frame_vars>>

\* Bounds of the model: the calls made on one session.
MaxSessionCalls == 3

None == <<>>
Flags ==
    [initialized |-> initialized, GPRSinitialized |-> GPRSinitialized,
     HTTPinitialized |-> HTTPinitialized]

\* SIM800L.__init__.
SessionInit ==
    /\ initialized = FALSE
    /\ modemInfo = None
    /\ showSpecificErrors \in BOOLEAN
    /\ sslSupported = FALSE
    /\ ipAddr = None
    /\ GPRSinitialized = FALSE
    /\ HTTPinitialized = FALSE
    /\ sess_pc = "idle"
    /\ method = "none"
    /\ args = [apn |-> <<>>, username |-> <<>>, password |-> <<>>, method |-> ""]
    /\ retries = 0
    /\ apn = <<>>
    /\ trace = <<>>
    /\ heard = <<>>
    /\ outcome = ""
    /\ retval = <<>>
    /\ before = [initialized |-> FALSE, GPRSinitialized |-> FALSE, HTTPinitialized |-> FALSE]
    /\ ncalls = 0

\* The methods called and the arguments of connectGPRS.
Queries ==
    {"getSignalStrength", "batteryStatus", "networkRegisterationStatus",
     "scanNetworks", "getCurrentNetwork", "getServiceProviderName"}
Methods ==
    {"initialize", "connectGPRS", "disconnectGPRS", "initHTTP", "closeHTTP",
     "makeHTTPRequest", "getCellTowerInfo"} \cup Queries
NoArgs == [apn |-> <<>>, username |-> <<>>, password |-> <<>>, method |-> ""]
ConnectArgs ==
    [apn : {<<>>, <<"i", "n", "t", "e", "r", "n", "e", "t">>}, username : {<<>>, <<"u">>}, password : {<<>>, <<"p">>},
     method : {""}]
\* makeHTTPRequest(url, method, data, contentType): the url, data and content
\* type are fixed, the method is GET, POST or one that is not supported.
RequestArgs == {[NoArgs EXCEPT !.method = m] : m \in {"GET", "POST", "PUT"}}
RequestData == <<"h", "i">>
RequestContentType == <<"a", "p", "p", "l", "i", "c", "a", "t", "i", "o", "n", "/", "j", "s", "o", "n">>
RequestURL == <<"h", "t", "t", "p", ":", "/", "/", "x">>

\* The first step of each method.
Entry(m, a) ==
    CASE m = "initialize" -> "productInfo"
      [] m = "connectGPRS" -> IF a.apn = <<>> THEN "getAPN" ELSE "checkInitialized"
      [] m = "disconnectGPRS" -> "closeBearer"
      [] m = "initHTTP" -> "closeHTTP"
      [] m = "closeHTTP" -> "closeHTTP"
      [] m = "makeHTTPRequest" -> "checkHTTP"
      [] m = "getCellTowerInfo" -> "setCellInfoDetails"
      [] m \in Queries -> "execute"

\* A method is called.
SessionCall(m, a) ==
    /\ sess_pc \in {"idle", "done"}
    /\ ncalls < MaxSessionCalls
    /\ method' = m
    /\ args' = a
    /\ sess_pc' = Entry(m, a)
    /\ retries' = 0
    /\ apn' = a.apn
    /\ trace' = <<>>
    /\ heard' = <<>>
    /\ outcome' = ""
    /\ retval' = <<>>
    /\ before' = Flags
    /\ ncalls' = ncalls + 1
    /\ UNCHANGED obj_vars
    /\ UNCHANGED other_vars

\* str(b) of a bool.
BoolStr(b) == IF b THEN <<"T", "r", "u", "e">> ELSE <<"F", "a", "l", "s", "e">>

\* What a step appends to the trace.
Written(cmd) == [ev |-> "write", arg |-> cmd.string \o CRLF]
Slept(seconds) == [ev |-> "sleep", arg |-> DecStr(seconds)]

\* How a step leaves the method.
Raise(kind) == sess_pc' = "done" /\ outcome' = kind /\ retval' = <<>>
Return(value) == sess_pc' = "done" /\ outcome' = "returned" /\ retval' = value
Goto(label) == sess_pc' = label /\ UNCHANGED <<outcome, retval>>

\* A step that only executes cmd: any exception of execute leaves the method,
\* otherwise the method goes on at label.
Plain(cmd, label) ==
    /\ \E reply \in Replies(cmd) : heard' = reply /\ \E r \in {execute(cmd, reply, TRUE)} :
          IF r.error # "" THEN Raise(r.error) ELSE Goto(label)
    /\ trace' = Append(trace, Written(cmd))
    /\ UNCHANGED <<method, args, before, ncalls, retries, apn>>
    /\ UNCHANGED obj_vars

\* A step that executes cmd inside `try ... except GenericATError: pass
\* except SpecificATError: pass`: only a TimeoutError leaves the method.
BestEffort(cmd, label) ==
    /\ \E reply \in Replies(cmd) : heard' = reply /\ \E r \in {execute(cmd, reply, TRUE)} :
          IF r.error = "TimeoutError" THEN Raise(r.error) ELSE Goto(label)
    /\ trace' = Append(trace, Written(cmd))
    /\ UNCHANGED <<method, args, before, ncalls, retries, apn>>
    /\ UNCHANGED obj_vars

\* ---- initialize ----

\* Mutant of initialize_productInfo: a fourth attempt is made.
initialize_productInfo_FourAttempts ==
    /\ sess_pc = "productInfo"
    /\ method = "initialize"
    /\ \E reply \in Replies(productInfo) : heard' = reply /\ \E r \in {execute(productInfo, reply, TRUE)} :
          IF r.error # ""
          THEN /\ retries' = retries + 1
               /\ IF retries + 1 < 4
                  THEN /\ trace' = trace \o <<Written(productInfo), Slept(3)>>
                       /\ Goto("productInfo")
                  ELSE /\ trace' = Append(trace, Written(productInfo))
                       /\ Raise(r.error)
               /\ UNCHANGED modemInfo
          ELSE /\ modemInfo' = r.result
               /\ trace' = Append(trace, Written(productInfo))
               /\ Goto("isSIMInserted")
               /\ UNCHANGED retries
    /\ UNCHANGED <<method, args, before, ncalls, apn>>
    /\ UNCHANGED <<initialized, showSpecificErrors, sslSupported, ipAddr,
                   GPRSinitialized, HTTPinitialized>>
    /\ UNCHANGED other_vars

\* The probe loop of initialize: one `self.execute(Commands.productInfo())`;
\* on any exception retries is incremented, and the method sleeps 3 seconds
\* and probes again while retries < 3, else it re-raises.
initialize_productInfo ==
    /\ sess_pc = "productInfo"
    /\ method = "initialize"
    /\ \E reply \in Replies(productInfo) : heard' = reply /\ \E r \in {execute(productInfo, reply, TRUE)} :
          IF r.error # ""
          THEN /\ retries' = retries + 1
               /\ IF retries + 1 < 3
                  THEN /\ trace' = trace \o <<Written(productInfo), Slept(3)>>
                       /\ Goto("productInfo")
                  ELSE /\ trace' = Append(trace, Written(productInfo))
                       /\ Raise(r.error)
               /\ UNCHANGED modemInfo
          ELSE /\ modemInfo' = r.result
               /\ trace' = Append(trace, Written(productInfo))
               /\ Goto("isSIMInserted")
               /\ UNCHANGED retries
    /\ UNCHANGED <<method, args, before, ncalls, apn>>
    /\ UNCHANGED <<initialized, showSpecificErrors, sslSupported, ipAddr,
                   GPRSinitialized, HTTPinitialized>>
    /\ UNCHANGED other_vars

\* The SIM check: anything but "+CSMINS: 0,1" is an Exception; otherwise
\* initialized becomes True.
initialize_isSIMInserted ==
    /\ sess_pc = "isSIMInserted"
    /\ \E reply \in Replies(isSIMInserted) : heard' = reply /\ \E r \in {execute(isSIMInserted, reply, TRUE)} :
          IF r.error # "" THEN Raise(r.error) /\ UNCHANGED initialized
          ELSE IF r.result # <<"+", "C", "S", "M", "I", "N", "S", ":", " ", "0", ",", "1">> THEN Raise("Exception") /\ UNCHANGED initialized
          ELSE initialized' = TRUE /\ Goto("checkSSL")
    /\ trace' = Append(trace, Written(isSIMInserted))
    /\ UNCHANGED <<method, args, before, ncalls, retries, apn>>
    /\ UNCHANGED <<modemInfo, showSpecificErrors, sslSupported, ipAddr,
                   GPRSinitialized, HTTPinitialized>>
    /\ UNCHANGED other_vars

\* The SSL probe, made after initialized has been set.
initialize_checkSSL ==
    /\ sess_pc = "checkSSL"
    /\ \E reply \in Replies(checkSSL) : heard' = reply /\ \E r \in {execute(checkSSL, reply, TRUE)} :
          IF r.error # "" THEN Raise(r.error) /\ UNCHANGED sslSupported
          ELSE /\ sslSupported' = (r.result = <<"+", "C", "I", "P", "S", "S", "L", ":", " ", "(", "0", "-", "1", ")">>)
               /\ IF showSpecificErrors THEN Goto("enableErrorCodes")
                  ELSE Return(BoolStr(initialized))
    /\ trace' = Append(trace, Written(checkSSL))
    /\ UNCHANGED <<method, args, before, ncalls, retries, apn>>
    /\ UNCHANGED <<initialized, modemInfo, showSpecificErrors, ipAddr,
                   GPRSinitialized, HTTPinitialized>>
    /\ UNCHANGED other_vars

initialize_enableErrorCodes ==
    /\ sess_pc = "enableErrorCodes"
    /\ \E reply \in Replies(enableErrorCodes) : heard' = reply /\
       \E r \in {execute(enableErrorCodes, reply, TRUE)} :
          IF r.error # "" THEN Raise(r.error) ELSE Return(BoolStr(initialized))
    /\ trace' = Append(trace, Written(enableErrorCodes))
    /\ UNCHANGED <<method, args, before, ncalls, retries, apn>>
    /\ UNCHANGED obj_vars
    /\ UNCHANGED other_vars

initialize ==
    \/ initialize_productInfo
    \/ initialize_isSIMInserted
    \/ initialize_checkSSL
    \/ initialize_enableErrorCodes

\* ---- getServiceProviderName, getAPN, getIP ----

\* output.split(":")[1].split(",")[0].replace('"', "").strip(); IndexError
\* when the output has no ":".
ProviderIn(parts) ==
    IF Len(parts) < 2 THEN [error |-> "IndexError", name |-> <<>>]
    ELSE [error |-> "", name |-> Strip(Without(SplitBy(parts[2], ",")[1], "\""))]
getServiceProviderName(r) ==
    IF r.error # "" THEN [error |-> r.error, name |-> <<>>]
    ELSE ProviderIn(SplitBy(r.result, ":"))

\* getAPN on the outcome of getServiceProviderName: the APN of the provider,
\* an Exception when apn_list has none.
getAPN(p) ==
    IF p.error # "" THEN [error |-> p.error, apn |-> <<>>]
    ELSE IF Lower(p.name) \in DOMAIN apn_list
    THEN [error |-> "", apn |-> apn_list[Lower(p.name)]]
    ELSE [error |-> "Exception", apn |-> <<>>]

\* getIP after its execute: the last "+" part of the output must have three
\* comma-separated pieces, the third, without quotes, four dot-separated
\* ones; "0.0.0.0" is None.
AddressIn(ip_addr) ==
    IF Len(SplitBy(ip_addr, ".")) # 4 THEN [error |-> "Exception", ip |-> None]
    ELSE IF ip_addr = <<"0", ".", "0", ".", "0", ".", "0">> THEN [error |-> "", ip |-> None]
    ELSE [error |-> "", ip |-> ip_addr]
PiecesOf(pieces) ==
    IF Len(pieces) # 3 THEN [error |-> "Exception", ip |-> None]
    ELSE AddressIn(Without(pieces[3], "\""))
LastOf(s) == s[Len(s)]
getIP(r) ==
    IF r.error # "" THEN [error |-> r.error, ip |-> None]
    ELSE PiecesOf(SplitBy(LastOf(SplitBy(r.result, "+")), ","))

\* ---- connectGPRS ----

\* `if not apn: apn = self.getAPN()`.
connectGPRS_getAPN ==
    /\ sess_pc = "getAPN"
    /\ \E reply \in Replies(getServiceProviderNameCmd) : heard' = reply /\
       \E a \in {getAPN(getServiceProviderName(
                   execute(getServiceProviderNameCmd, reply, TRUE)))} :
          IF a.error # "" THEN Raise(a.error) /\ UNCHANGED apn
          ELSE apn' = a.apn /\ Goto("checkInitialized")
    /\ trace' = Append(trace, Written(getServiceProviderNameCmd))
    /\ UNCHANGED <<method, args, before, ncalls, retries>>
    /\ UNCHANGED obj_vars
    /\ UNCHANGED other_vars

\* `if not self.initialized: raise Exception(...)`.
connectGPRS_checkInitialized ==
    /\ sess_pc = "checkInitialized"
    /\ IF ~initialized THEN Raise("Exception") ELSE Goto("getIP")
    /\ UNCHANGED <<method, args, before, ncalls, retries, apn, trace, heard>>
    /\ UNCHANGED obj_vars
    /\ UNCHANGED other_vars

\* Mutant of connectGPRS_getIP: the bearer is reopened even when an IP is
\* already assigned.
connectGPRS_getIP_AlwaysReopens ==
    /\ sess_pc = "getIP"
    /\ method = "connectGPRS"
    /\ \E reply \in Replies(bearerStatus) : heard' = reply /\
       \E i \in {getIP(execute(bearerStatus, reply, TRUE))} :
          IF i.error # "" THEN Raise(i.error) /\ UNCHANGED ipAddr
          ELSE /\ ipAddr' = i.ip
               /\ Goto("closeBearer")
    /\ trace' = Append(trace, Written(bearerStatus))
    /\ UNCHANGED <<method, args, before, ncalls, retries, apn>>
    /\ UNCHANGED <<initialized, modemInfo, showSpecificErrors, sslSupported,
                   GPRSinitialized, HTTPinitialized>>
    /\ UNCHANGED other_vars

\* `self.ipAddr = self.getIP(); if self.ipAddr: return self.ipAddr`.
connectGPRS_getIP ==
    /\ sess_pc = "getIP"
    /\ method = "connectGPRS"
    /\ \E reply \in Replies(bearerStatus) : heard' = reply /\
       \E i \in {getIP(execute(bearerStatus, reply, TRUE))} :
          IF i.error # "" THEN Raise(i.error) /\ UNCHANGED ipAddr
          ELSE /\ ipAddr' = i.ip
               /\ IF i.ip # None THEN Return(i.ip) ELSE Goto("closeBearer")
    /\ trace' = Append(trace, Written(bearerStatus))
    /\ UNCHANGED <<method, args, before, ncalls, retries, apn>>
    /\ UNCHANGED <<initialized, modemInfo, showSpecificErrors, sslSupported,
                   GPRSinitialized, HTTPinitialized>>
    /\ UNCHANGED other_vars

connectGPRS_closeBearer ==
    /\ sess_pc = "closeBearer"
    /\ method = "connectGPRS"
    /\ BestEffort(closeBearer, "setBearerGPRS")
    /\ UNCHANGED other_vars

\* Mutant of connectGPRS_setBearerGPRS: device errors of the command are
\* ignored as those of the close are.
connectGPRS_setBearerGPRS_IgnoresErrors ==
    /\ sess_pc = "setBearerGPRS"
    /\ BestEffort(setBearerGPRS, "setBearerAPN")
    /\ UNCHANGED other_vars

connectGPRS_setBearerGPRS ==
    /\ sess_pc = "setBearerGPRS"
    /\ Plain(setBearerGPRS, "setBearerAPN")
    /\ UNCHANGED other_vars

connectGPRS_setBearerAPN ==
    /\ sess_pc = "setBearerAPN"
    /\ Plain(setBearerAPN(apn),
             IF args.username # <<>> THEN "setBearerUsername"
             ELSE IF args.password # <<>> THEN "setBearerPassword"
             ELSE "openBearer")
    /\ UNCHANGED other_vars

connectGPRS_setBearerUsername ==
    /\ sess_pc = "setBearerUsername"
    /\ Plain(setBearerUsername(args.username),
             IF args.password # <<>> THEN "setBearerPassword" ELSE "openBearer")
    /\ UNCHANGED other_vars

connectGPRS_setBearerPassword ==
    /\ sess_pc = "setBearerPassword"
    /\ Plain(setBearerPassword(args.password), "openBearer")
    /\ UNCHANGED other_vars

\* `retries = 0; max_retries = 5` follow the open.
connectGPRS_openBearer ==
    /\ sess_pc = "openBearer"
    /\ Plain(openBearer, "poll")
    /\ UNCHANGED other_vars

\* Mutant of connectGPRS_poll: max_retries is 11, so six polls are made.
connectGPRS_poll_ElevenRetries ==
    /\ sess_pc = "poll"
    /\ \E reply \in Replies(bearerStatus) : heard' = reply /\
       \E i \in {getIP(execute(bearerStatus, reply, TRUE))} :
          IF i.error # ""
          THEN /\ Raise(i.error)
               /\ retries' = retries + 1
               /\ trace' = Append(trace, Written(bearerStatus))
               /\ UNCHANGED <<ipAddr, GPRSinitialized>>
          ELSE /\ ipAddr' = i.ip
               /\ IF i.ip = None
                  THEN /\ retries' = retries + 2
                       /\ UNCHANGED GPRSinitialized
                       /\ IF retries + 2 > 11
                          THEN /\ Raise("Exception")
                               /\ trace' = Append(trace, Written(bearerStatus))
                          ELSE /\ Goto("poll")
                               /\ trace' = trace \o <<Written(bearerStatus), Slept(1)>>
                  ELSE /\ retries' = retries + 1
                       /\ GPRSinitialized' = TRUE
                       /\ Return(i.ip)
                       /\ trace' = Append(trace, Written(bearerStatus))
    /\ UNCHANGED <<method, args, before, ncalls, apn>>
    /\ UNCHANGED <<initialized, modemInfo, showSpecificErrors, sslSupported,
                   HTTPinitialized>>
    /\ UNCHANGED other_vars

\* One round of the loop that waits for an IP address: retries += 1, getIP;
\* without an address retries += 1 again and, unless retries > max_retries,
\* one second of sleep; with one, GPRSinitialized = True and the address is
\* returned.
connectGPRS_poll ==
    /\ sess_pc = "poll"
    /\ \E reply \in Replies(bearerStatus) : heard' = reply /\
       \E i \in {getIP(execute(bearerStatus, reply, TRUE))} :
          IF i.error # ""
          THEN /\ Raise(i.error)
               /\ retries' = retries + 1
               /\ trace' = Append(trace, Written(bearerStatus))
               /\ UNCHANGED <<ipAddr, GPRSinitialized>>
          ELSE /\ ipAddr' = i.ip
               /\ IF i.ip = None
                  THEN /\ retries' = retries + 2
                       /\ UNCHANGED GPRSinitialized
                       /\ IF retries + 2 > 5
                          THEN /\ Raise("Exception")
                               /\ trace' = Append(trace, Written(bearerStatus))
                          ELSE /\ Goto("poll")
                               /\ trace' = trace \o <<Written(bearerStatus), Slept(1)>>
                  ELSE /\ retries' = retries + 1
                       /\ GPRSinitialized' = TRUE
                       /\ Return(i.ip)
                       /\ trace' = Append(trace, Written(bearerStatus))
    /\ UNCHANGED <<method, args, before, ncalls, apn>>
    /\ UNCHANGED <<initialized, modemInfo, showSpecificErrors, sslSupported,
                   HTTPinitialized>>
    /\ UNCHANGED other_vars

connectGPRS ==
    \/ connectGPRS_getAPN
    \/ connectGPRS_checkInitialized
    \/ connectGPRS_getIP
    \/ connectGPRS_closeBearer
    \/ connectGPRS_setBearerGPRS
    \/ connectGPRS_setBearerAPN
    \/ connectGPRS_setBearerUsername
    \/ connectGPRS_setBearerPassword
    \/ connectGPRS_openBearer
    \/ connectGPRS_poll

\* ---- disconnectGPRS ----

disconnectGPRS_closeBearer ==
    /\ sess_pc = "closeBearer"
    /\ method = "disconnectGPRS"
    /\ BestEffort(closeBearer, "getIP")
    /\ UNCHANGED other_vars

\* Mutant of disconnectGPRS_getIP: GPRSinitialized is cleared even when an
\* address remains.
disconnectGPRS_getIP_AlwaysClears ==
    /\ sess_pc = "getIP"
    /\ method = "disconnectGPRS"
    /\ \E reply \in Replies(bearerStatus) : heard' = reply /\
       \E i \in {getIP(execute(bearerStatus, reply, TRUE))} :
          IF i.error # "" THEN Raise(i.error) /\ UNCHANGED GPRSinitialized
          ELSE IF i.ip # None THEN Raise("Exception") /\ GPRSinitialized' = FALSE
          ELSE GPRSinitialized' = FALSE /\ Return(None)
    /\ trace' = Append(trace, Written(bearerStatus))
    /\ UNCHANGED <<method, args, before, ncalls, retries, apn>>
    /\ UNCHANGED <<initialized, modemInfo, showSpecificErrors, sslSupported, ipAddr,
                   HTTPinitialized>>
    /\ UNCHANGED other_vars

\* `ip_addr = self.getIP()`: a remaining address is an Exception, otherwise
\* GPRSinitialized = False.
disconnectGPRS_getIP ==
    /\ sess_pc = "getIP"
    /\ method = "disconnectGPRS"
    /\ \E reply \in Replies(bearerStatus) : heard' = reply /\
       \E i \in {getIP(execute(bearerStatus, reply, TRUE))} :
          IF i.error # "" THEN Raise(i.error) /\ UNCHANGED GPRSinitialized
          ELSE IF i.ip # None THEN Raise("Exception") /\ UNCHANGED GPRSinitialized
          ELSE GPRSinitialized' = FALSE /\ Return(None)
    /\ trace' = Append(trace, Written(bearerStatus))
    /\ UNCHANGED <<method, args, before, ncalls, retries, apn>>
    /\ UNCHANGED <<initialized, modemInfo, showSpecificErrors, sslSupported, ipAddr,
                   HTTPinitialized>>
    /\ UNCHANGED other_vars

disconnectGPRS == disconnectGPRS_closeBearer \/ disconnectGPRS_getIP

\* ---- closeHTTP, initHTTP ----

\* closeHTTP, called by itself: execute, then HTTPinitialized = False.
closeHTTP ==
    /\ sess_pc = "closeHTTP"
    /\ method = "closeHTTP"
    /\ \E reply \in Replies(closeHTTPCmd) : heard' = reply /\ \E r \in {execute(closeHTTPCmd, reply, TRUE)} :
          IF r.error # "" THEN Raise(r.error) /\ UNCHANGED HTTPinitialized
          ELSE HTTPinitialized' = FALSE /\ Return(None)
    /\ trace' = Append(trace, Written(closeHTTPCmd))
    /\ UNCHANGED <<method, args, before, ncalls, retries, apn>>
    /\ UNCHANGED <<initialized, modemInfo, showSpecificErrors, sslSupported, ipAddr,
                   GPRSinitialized>>
    /\ UNCHANGED other_vars

\* The closeHTTP that initHTTP calls first, inside `try ... except
\* GenericATError: pass except SpecificATError: pass`.
initHTTP_closeHTTP ==
    /\ sess_pc = "closeHTTP"
    /\ method = "initHTTP"
    /\ \E reply \in Replies(closeHTTPCmd) : heard' = reply /\ \E r \in {execute(closeHTTPCmd, reply, TRUE)} :
          IF r.error = "TimeoutError" THEN Raise(r.error) /\ UNCHANGED HTTPinitialized
          ELSE IF r.error # "" THEN Goto("initHTTP") /\ UNCHANGED HTTPinitialized
          ELSE HTTPinitialized' = FALSE /\ Goto("initHTTP")
    /\ trace' = Append(trace, Written(closeHTTPCmd))
    /\ UNCHANGED <<method, args, before, ncalls, retries, apn>>
    /\ UNCHANGED <<initialized, modemInfo, showSpecificErrors, sslSupported, ipAddr,
                   GPRSinitialized>>
    /\ UNCHANGED other_vars

initHTTP_initHTTP ==
    /\ sess_pc = "initHTTP"
    /\ Plain(initHTTPCmd, "setHTTPParameterCID")
    /\ UNCHANGED other_vars

initHTTP_setHTTPParameterCID ==
    /\ sess_pc = "setHTTPParameterCID"
    /\ \E reply \in Replies(setHTTPParameterCID) : heard' = reply /\
       \E r \in {execute(setHTTPParameterCID, reply, TRUE)} :
          IF r.error # "" THEN Raise(r.error) /\ UNCHANGED HTTPinitialized
          ELSE HTTPinitialized' = TRUE /\ Return(None)
    /\ trace' = Append(trace, Written(setHTTPParameterCID))
    /\ UNCHANGED <<method, args, before, ncalls, retries, apn>>
    /\ UNCHANGED <<initialized, modemInfo, showSpecificErrors, sslSupported, ipAddr,
                   GPRSinitialized>>
    /\ UNCHANGED other_vars

initHTTP == initHTTP_closeHTTP \/ initHTTP_initHTTP \/ initHTTP_setHTTPParameterCID

\* ---- makeHTTPRequest(url, method, data, contentType) ----

\* Mutant of makeHTTPRequest_checkHTTP: HTTPinitialized is not looked at.
makeHTTPRequest_checkHTTP_NoCheck ==
    /\ sess_pc = "checkHTTP"
    /\ Goto("setHTTPParameterURL")
    /\ UNCHANGED <<method, args, before, ncalls, retries, apn, trace, heard>>
    /\ UNCHANGED obj_vars
    /\ UNCHANGED other_vars

\* `if not self.HTTPinitialized: raise Exception(...)`.
makeHTTPRequest_checkHTTP ==
    /\ sess_pc = "checkHTTP"
    /\ IF ~HTTPinitialized THEN Raise("Exception") ELSE Goto("setHTTPParameterURL")
    /\ UNCHANGED <<method, args, before, ncalls, retries, apn, trace, heard>>
    /\ UNCHANGED obj_vars
    /\ UNCHANGED other_vars

\* The URL is set before the method is looked at: a method other than GET
\* and POST is an Exception after this command.
makeHTTPRequest_setHTTPParameterURL ==
    /\ sess_pc = "setHTTPParameterURL"
    /\ \E reply \in Replies(setHTTPParameterURL(RequestURL)) : heard' = reply /\
       \E r \in {execute(setHTTPParameterURL(RequestURL), reply, TRUE)} :
          IF r.error # "" THEN Raise(r.error)
          ELSE IF args.method = "GET" THEN Goto("HTTPActionGET")
          ELSE IF args.method = "POST" THEN Goto("setHTTPParameterContent")
          ELSE Raise("Exception")
    /\ trace' = Append(trace, Written(setHTTPParameterURL(RequestURL)))
    /\ UNCHANGED <<method, args, before, ncalls, retries, apn>>
    /\ UNCHANGED obj_vars
    /\ UNCHANGED other_vars

\* The three commands that send the data of a POST.
makeHTTPRequest_setHTTPParameterContent ==
    /\ sess_pc = "setHTTPParameterContent"
    /\ Plain(setHTTPParameterContent(RequestContentType), "HTTPData")
    /\ UNCHANGED other_vars

\* Mutant of makeHTTPRequest_HTTPData: the body is not written.
makeHTTPRequest_HTTPData_SkipsBody ==
    /\ sess_pc = "HTTPData"
    /\ Plain(HTTPData, "HTTPActionPOST")
    /\ UNCHANGED other_vars

makeHTTPRequest_HTTPData ==
    /\ sess_pc = "HTTPData"
    /\ Plain(HTTPData, "dumpData")
    /\ UNCHANGED other_vars

makeHTTPRequest_dumpData ==
    /\ sess_pc = "dumpData"
    /\ Plain(dumpData(RequestData), "HTTPActionPOST")
    /\ UNCHANGED other_vars

\* The POST action, with its output used as that of the GET action is.
makeHTTPRequest_HTTPActionPOST ==
    /\ sess_pc = "HTTPActionPOST"
    /\ \E reply \in Replies(HTTPActionPOST) : heard' = reply /\
       \E r \in {execute(HTTPActionPOST, reply, TRUE)} :
          IF r.error # "" THEN Raise(r.error)
          ELSE IF Len(SplitBy(r.result, ",")) < 2 THEN Raise("IndexError")
          ELSE /\ sess_pc' = "HTTPRead"
               /\ retval' = SplitBy(r.result, ",")[2]
               /\ UNCHANGED outcome
    /\ trace' = Append(trace, Written(HTTPActionPOST))
    /\ UNCHANGED <<method, args, before, ncalls, retries, apn>>
    /\ UNCHANGED obj_vars
    /\ UNCHANGED other_vars

\* The GET action; `output.split(",")[1]` is evaluated before the read, and
\* is an IndexError when the output has no ",".  The status code is kept in
\* retval until the read.
makeHTTPRequest_HTTPActionGET ==
    /\ sess_pc = "HTTPActionGET"
    /\ \E reply \in Replies(HTTPActionGET) : heard' = reply /\ \E r \in {execute(HTTPActionGET, reply, TRUE)} :
          IF r.error # "" THEN Raise(r.error)
          ELSE IF Len(SplitBy(r.result, ",")) < 2 THEN Raise("IndexError")
          ELSE /\ sess_pc' = "HTTPRead"
               /\ retval' = SplitBy(r.result, ",")[2]
               /\ UNCHANGED outcome
    /\ trace' = Append(trace, Written(HTTPActionGET))
    /\ UNCHANGED <<method, args, before, ncalls, retries, apn>>
    /\ UNCHANGED obj_vars
    /\ UNCHANGED other_vars

\* `self.execute(Commands.HTTPRead(), clean_output=False)`; the Response is
\* the status code, a "|" and the content.
makeHTTPRequest_HTTPRead ==
    /\ sess_pc = "HTTPRead"
    /\ \E reply \in Replies(HTTPRead) : heard' = reply /\ \E r \in {execute(HTTPRead, reply, FALSE)} :
          IF r.error # "" THEN Raise(r.error)
          ELSE Return(retval \o <<"|">> \o r.result)
    /\ trace' = Append(trace, Written(HTTPRead))
    /\ UNCHANGED <<method, args, before, ncalls, retries, apn>>
    /\ UNCHANGED obj_vars
    /\ UNCHANGED other_vars

makeHTTPRequest ==
    \/ makeHTTPRequest_checkHTTP
    \/ makeHTTPRequest_setHTTPParameterURL
    \/ makeHTTPRequest_setHTTPParameterContent
    \/ makeHTTPRequest_HTTPData
    \/ makeHTTPRequest_dumpData
    \/ makeHTTPRequest_HTTPActionGET
    \/ makeHTTPRequest_HTTPActionPOST
    \/ makeHTTPRequest_HTTPRead

\* ---- the read-only queries ----

\* What a query gives its caller: the exception it raises ("" when it
\* returns) and the value it returns.  A list is kept apart from None.
Failed(kind) == [error |-> kind, value |-> None]
Value(v) == [error |-> "", value |-> v]
List(items) == [items |-> items]

\* s.split(sep) for a separator of any length, and s.split(sep)[0].
RECURSIVE SplitOn(_, _)
SplitOn(s, sep) ==
    IF FindFrom(s, sep, 1) = 0 THEN <<s>>
    ELSE <<SubSeq(s, 1, FindFrom(s, sep, 1) - 1)>>
         \o SplitOn(SubSeq(s, FindFrom(s, sep, 1) + Len(sep), Len(s)), sep)
BeforeSep(s, sep) ==
    IF FindFrom(s, sep, 1) = 0 THEN s ELSE SubSeq(s, 1, FindFrom(s, sep, 1) - 1)

\* parts[1] of Python where it exists.
Second(parts) == IF Len(parts) < 2 THEN <<>> ELSE parts[2]

\* str(n) of an int n >= 0, and str(n / 1000) of an int n: the integer part,
\* a point and the thousandths without trailing zeros.
RECURSIVE IntStr(_)
IntStr(n) ==
    IF n < 10 THEN <<HexChars[n + 1]>>
    ELSE IntStr(n \div 10) \o <<HexChars[(n % 10) + 1]>>
RECURSIVE NoTrailingZeros(_)
NoTrailingZeros(s) ==
    IF s # <<>> /\ s[Len(s)] = "0" THEN NoTrailingZeros(SubSeq(s, 1, Len(s) - 1))
    ELSE s
Millis(n) ==
    <<HexChars[(n \div 100) + 1], HexChars[((n \div 10) % 10) + 1], HexChars[(n % 10) + 1]>>
FractionStr(digits) == IF digits = <<>> THEN <<"0">> ELSE digits
ThousandthStr(n) ==
    (IF n < 0 THEN <<"-">> ELSE <<>>) \o IntStr(Abs(n) \div 1000) \o <<".">>
    \o FractionStr(NoTrailingZeros(Millis(Abs(n) % 1000)))

\* getSignalStrength after its execute: `rssi, rxQual = ...split(",")`,
\* float(rssi) unless rssi is "99", int(rxQual).
BitErrorRate(rxQual) ==
    CASE rxQual = 0 -> <<"B", "E", "R", " ", "<", " ", "0", ".", "2", "%">>
      [] rxQual = 1 -> <<"0", ".", "2", "%", " ", "<", " ", "B", "E", "R", " ", "<", " ", "0", ".", "4", "%">>
      [] rxQual = 2 -> <<"0", ".", "4", "%", " ", "<", " ", "B", "E", "R", " ", "<", " ", "0", ".", "8", "%">>
      [] rxQual = 3 -> <<"0", ".", "8", "%", " ", "<", " ", "B", "E", "R", " ", "<", " ", "1", ".", "6", "%">>
      [] rxQual = 4 -> <<"1", ".", "6", "%", " ", "<", " ", "B", "E", "R", " ", "<", " ", "3", ".", "2", "%">>
      [] rxQual = 5 -> <<"3", ".", "2", "%", " ", "<", " ", "B", "E", "R", " ", "<", " ", "6", ".", "4", "%">>
      [] rxQual = 6 -> <<"6", ".", "4", "%", " ", "<", " ", "B", "E", "R", " ", "<", " ", "1", "2", ".", "8", "%">>
      [] rxQual = 7 -> <<"1", "2", ".", "8", "%", " ", "<", " ", "B", "E", "R">>
      [] OTHER -> <<"9", "9">>
SignalOf(rssi, f, q) ==
    IF rssi # <<"9", "9">> /\ ~f.ok THEN Failed("ValueError")
    ELSE IF ~q.ok THEN Failed("ValueError")
    ELSE Value(<<IF rssi # <<"9", "9">> THEN RatDivInt(RatMulInt(f.val, 100), 30)
                 ELSE RatOfInt(99),
                 BitErrorRate(q.val)>>)
SignalIn(fields) ==
    IF Len(fields) # 2 THEN Failed("ValueError")
    ELSE SignalOf(fields[1], ParseFloat(Strip(fields[1])), ParseInt(Strip(fields[2])))
SignalStrengthOf(r) ==
    IF r.error # "" THEN Failed(r.error)
    ELSE IF Len(SplitBy(r.result, ":")) < 2 THEN Failed("IndexError")
    ELSE SignalIn(SplitBy(SplitBy(r.result, ":")[2], ","))

\* batteryStatus after its execute.
ChargeState(battChargeStatus) ==
    IF battChargeStatus = <<"0">> THEN <<"N", "o", "t", " ", "c", "h", "a", "r", "g", "i", "n", "g">>
    ELSE IF battChargeStatus = <<"1">> THEN <<"C", "h", "a", "r", "g", "i", "n", "g">>
    ELSE IF battChargeStatus = <<"2">> THEN <<"F", "i", "n", "i", "s", "h", "e", "d", " ", "c", "h", "a", "r", "g", "i", "n", "g">>
    ELSE <<"P", "o", "w", "e", "r", " ", "f", "a", "u", "l", "t">>
BatteryOf(fields, v) ==
    IF ~v.ok THEN Failed("ValueError")
    ELSE Value(<<ChargeState(fields[1]), fields[2] \o <<"%">>,
                 ThousandthStr(v.val) \o <<"V">>>>)
BatteryIn(fields) ==
    IF Len(fields) # 3 THEN Failed("ValueError")
    ELSE BatteryOf(fields, ParseInt(Strip(fields[3])))
BatteryStatusOf(r) ==
    IF r.error # "" THEN Failed(r.error)
    ELSE IF Len(SplitBy(r.result, ":")) < 2 THEN Failed("IndexError")
    ELSE BatteryIn(SplitBy(SplitBy(r.result, ":")[2], ","))

\* networkRegisterationStatus after its execute.
RegistrationOf(code) ==
    IF code \notin DOMAIN network_registration THEN Failed("KeyError")
    ELSE Value(<<BoolStr(code \in {<<"1">>, <<"5">>}), code, network_registration[code]>>)
RegistrationStatusOf(r) ==
    IF r.error # "" THEN Failed(r.error)
    ELSE IF Len(SplitBy(r.result, ",")) < 2 THEN Failed("IndexError")
    ELSE RegistrationOf(SplitBy(r.result, ",")[2])

\* scanNetworks after its execute: the entries that do not have 4 fields
\* are left out.
NetworkFields(raw_network) ==
    SplitBy(Without(Without(Without(raw_network, "\""), "("), ")"), ",")
NetworkOf(raw_networks) ==
    [name |-> raw_networks[2], shortname |-> raw_networks[3], id |-> raw_networks[4]]
RECURSIVE NetworksIn(_)
NetworksIn(raw_networks) ==
    IF raw_networks = <<>> THEN <<>>
    ELSE (IF Len(NetworkFields(raw_networks[1])) # 4 THEN <<>>
          ELSE <<NetworkOf(NetworkFields(raw_networks[1]))>>)
         \o NetworksIn(Tail(raw_networks))
ScanOf(p) ==
    IF ~p.found THEN Failed("IndexError")
    ELSE Value(List(NetworksIn(SplitOn(BeforeSep(Strip(p.tail), <<",", ",">>), <<",", "(">>))))
NetworksOf(r) ==
    IF r.error # "" THEN Failed(r.error) ELSE ScanOf(Partition(r.result, ":"))

\* getCurrentNetwork after its execute: None unless there are 3 fields.
CurrentOf(network) ==
    IF Len(network) # 3 THEN Value(None)
    ELSE Value([mode |-> network[1], format |-> network[2],
                oper |-> Without(network[3], "\"")])
CurrentNetworkOf(r) ==
    IF r.error # "" THEN Failed(r.error)
    ELSE IF Len(SplitBy(r.result, ":")) < 2 THEN Failed("IndexError")
    ELSE CurrentOf(SplitBy(Strip(SplitBy(r.result, ":")[2]), ","))

\* getServiceProviderName as a query.
ProviderNameOf(r) ==
    [error |-> getServiceProviderName(r).error, value |-> getServiceProviderName(r).name]

\* getCellTowerInfo after its second execute: the lines that do not have 8
\* fields are left out; in the others `x.split('"')[1]`, `x.split(":")[1]`,
\* int(...) and int(..., 16) raise on the first field that is not as expected.
OperatorError(field) == IF Len(SplitBy(field, "\"")) < 2 THEN "IndexError" ELSE ""
DecError(field) ==
    IF Len(SplitBy(field, ":")) < 2 THEN "IndexError"
    ELSE IF ~ParseInt(Strip(Second(SplitBy(field, ":")))).ok THEN "ValueError"
    ELSE ""
HexError(field) ==
    IF Len(SplitBy(field, ":")) < 2 THEN "IndexError"
    ELSE IF ~ParseHex(Strip(Second(SplitBy(field, ":")))).ok THEN "ValueError"
    ELSE ""
RECURSIVE FirstError(_)
FirstError(errors) ==
    IF errors = <<>> THEN ""
    ELSE IF errors[1] # "" THEN errors[1]
    ELSE FirstError(Tail(errors))
CellError(rawCell) ==
    FirstError(<<OperatorError(rawCell[1]), DecError(rawCell[2]), DecError(rawCell[3]),
                 DecError(rawCell[4]), HexError(rawCell[5]), DecError(rawCell[6]),
                 HexError(rawCell[7]), HexError(rawCell[8])>>)
DecIn(field) == ParseInt(Strip(Second(SplitBy(field, ":")))).val
HexIn(field) == ParseHex(Strip(Second(SplitBy(field, ":")))).val
CellOf(rawCell) ==
    [operator |-> Second(SplitBy(rawCell[1], "\"")), mcc |-> DecIn(rawCell[2]),
     mnc |-> DecIn(rawCell[3]), rxlev |-> DecIn(rawCell[4]),
     cellId |-> HexIn(rawCell[5]), afcn |-> DecIn(rawCell[6]),
     lac |-> HexIn(rawCell[7]), bsic |-> HexIn(rawCell[8])]
RECURSIVE CellsIn(_, _)
CellsIn(lines, cells) ==
    IF lines = <<>> THEN Value(List(cells))
    ELSE IF Len(SplitBy(lines[1], ",")) # 8 THEN CellsIn(Tail(lines), cells)
    ELSE IF CellError(SplitBy(lines[1], ",")) # ""
    THEN Failed(CellError(SplitBy(lines[1], ",")))
    ELSE CellsIn(Tail(lines), Append(cells, CellOf(SplitBy(lines[1], ","))))
CellTowerInfoOf(r) ==
    IF r.error # "" THEN Failed(r.error) ELSE CellsIn(SplitBy(r.result, "\n"), <<>>)

\* A query that is one execute and the reading of its output.
Query(m, cmd, Parsed(_)) ==
    /\ sess_pc = "execute"
    /\ method = m
    /\ \E reply \in Replies(cmd) : heard' = reply /\
       \E v \in {Parsed(execute(cmd, reply, TRUE))} :
          IF v.error # "" THEN Raise(v.error) ELSE Return(v.value)
    /\ trace' = Append(trace, Written(cmd))
    /\ UNCHANGED <<method, args, before, ncalls, retries, apn>>
    /\ UNCHANGED obj_vars
    /\ UNCHANGED other_vars

getSignalStrength == Query("getSignalStrength", signalQuality, SignalStrengthOf)
batteryStatus == Query("batteryStatus", batteryCharge, BatteryStatusOf)
networkRegisterationStatus ==
    Query("networkRegisterationStatus", checkNetworkRegistration, RegistrationStatusOf)
scanNetworks == Query("scanNetworks", scanOperators, NetworksOf)
getCurrentNetwork == Query("getCurrentNetwork", currentOperator, CurrentNetworkOf)
getServiceProviderNameQuery ==
    Query("getServiceProviderName", getServiceProviderNameCmd, ProviderNameOf)

\* getCellTowerInfo: `self.execute(Commands.setCellInfoDetails(1))`, then the
\* scan.
getCellTowerInfo_setCellInfoDetails ==
    /\ sess_pc = "setCellInfoDetails"
    /\ Plain(setCellInfoDetails, "scanCellInfo")
    /\ UNCHANGED other_vars

getCellTowerInfo_scanCellInfo ==
    /\ sess_pc = "scanCellInfo"
    /\ \E reply \in Replies(scanCellInfo) : heard' = reply /\
       \E v \in {CellTowerInfoOf(execute(scanCellInfo, reply, TRUE))} :
          IF v.error # "" THEN Raise(v.error) ELSE Return(v.value)
    /\ trace' = Append(trace, Written(scanCellInfo))
    /\ UNCHANGED <<method, args, before, ncalls, retries, apn>>
    /\ UNCHANGED obj_vars
    /\ UNCHANGED other_vars

getCellTowerInfo == getCellTowerInfo_setCellInfoDetails \/ getCellTowerInfo_scanCellInfo

queries ==
    \/ getSignalStrength
    \/ batteryStatus
    \/ networkRegisterationStatus
    \/ scanNetworks
    \/ getCurrentNetwork
    \/ getServiceProviderNameQuery
    \/ getCellTowerInfo

----------------------------------------------------------------------------
(* Tracker: the GPS thread and the networking thread                       *)

\* Bounds of the model: the location strings the parser can produce and the
\* values gpsThread stores in one run.
Fixes == {"a", "b", "c"}
MaxWrites == 3

\* Tracker.hardReset: the board restarts and start() runs again.
hardReset ==
    /\ sharedData' = ""
    /\ sharedDataLock' = ""
    /\ gps_pc' = "read"
    /\ dataString' = ""
    /\ lastDataString' = ""
    /\ net_pc' = "connect"
    /\ currentData' = ""
    /\ lastData' = ""
    /\ failedRequests' = 0
    /\ written' = <<>>
    /\ readAt' = 0
    /\ sent' = [data |-> "", at |-> 0]
    /\ prevAt' = 0

\* gpsThread, one turn of its loop up to the test of dataString: a character
\* is read and parsed, and dataString stays as it is or becomes the string of
\* the fix just parsed.
gpsThread_read ==
    /\ gps_pc = "read"
    /\ \E d \in Fixes \cup {dataString} :
          /\ dataString' = d
          /\ IF d # "" /\ d # lastDataString
             THEN Len(written) < MaxWrites /\ gps_pc' = "acquire"
             ELSE gps_pc' = "read"
    /\ UNCHANGED <<sharedData, sharedDataLock, lastDataString, net_pc,
                   currentData, lastData, failedRequests, written, readAt, sent,
                   prevAt>>

\* self.sharedDataLock.acquire() of gpsThread with the lock held by nobody:
\* the mutant that does not wait.
gpsThread_acquire_NoWait ==
    /\ gps_pc = "acquire"
    /\ sharedDataLock' = "gps"
    /\ gps_pc' = "write"
    /\ UNCHANGED <<sharedData, dataString, lastDataString, net_pc, currentData,
                   lastData, failedRequests, written, readAt, sent, prevAt>>
\* self.sharedDataLock.acquire() of gpsThread: blocks while the lock is held.
gpsThread_acquire ==
    /\ gps_pc = "acquire"
    /\ sharedDataLock = ""
    /\ sharedDataLock' = "gps"
    /\ gps_pc' = "write"
    /\ UNCHANGED <<sharedData, dataString, lastDataString, net_pc, currentData,
                   lastData, failedRequests, written, readAt, sent, prevAt>>

\* self.sharedData = dataString.
gpsThread_write ==
    /\ gps_pc = "write"
    /\ sharedData' = dataString
    /\ written' = Append(written, dataString)
    /\ gps_pc' = "release"
    /\ UNCHANGED <<sharedDataLock, dataString, lastDataString, net_pc,
                   currentData, lastData, failedRequests, readAt, sent, prevAt>>

\* self.sharedDataLock.release(); lastDataString = dataString.
gpsThread_release ==
    /\ gps_pc = "release"
    /\ sharedDataLock' = ""
    /\ lastDataString' = dataString
    /\ gps_pc' = "read"
    /\ UNCHANGED <<sharedData, dataString, net_pc, currentData, lastData,
                   failedRequests, written, readAt, sent, prevAt>>

gpsThread ==
    /\ \/ gpsThread_read
       \/ gpsThread_acquire
       \/ gpsThread_write
       \/ gpsThread_release
    /\ UNCHANGED <<nmea_vars, scenario, at_vars, sess_vars>>

\* connectMqttServer at the start of networkingThread: it returns when the
\* server is connected, and resets the board after ten failures.
networkingThread_connect ==
    /\ net_pc = "connect"
    /\ \/ /\ net_pc' = "acquire"
          /\ UNCHANGED <<sharedData, sharedDataLock, gps_pc, dataString,
                         lastDataString, currentData, lastData, failedRequests,
                         written, readAt, sent, prevAt>>
       \/ hardReset

\* self.sharedDataLock.acquire() of networkingThread.
networkingThread_acquire ==
    /\ net_pc = "acquire"
    /\ sharedDataLock = ""
    /\ sharedDataLock' = "net"
    /\ net_pc' = "read"
    /\ UNCHANGED <<sharedData, gps_pc, dataString, lastDataString, currentData,
                   lastData, failedRequests, written, readAt, sent, prevAt>>

\* currentData = self.sharedData.
networkingThread_read ==
    /\ net_pc = "read"
    /\ currentData' = sharedData
    /\ readAt' = Len(written)
    /\ net_pc' = "release"
    /\ UNCHANGED <<sharedData, sharedDataLock, gps_pc, dataString,
                   lastDataString, lastData, failedRequests, written, sent,
                   prevAt>>

\* self.sharedDataLock.release() and the test of currentData.
networkingThread_release ==
    /\ net_pc = "release"
    /\ sharedDataLock' = ""
    /\ net_pc' = IF currentData # "" /\ currentData # lastData
                 THEN "send" ELSE "acquire"
    /\ UNCHANGED <<sharedData, gps_pc, dataString, lastDataString, currentData,
                   lastData, failedRequests, written, readAt, sent, prevAt>>

\* makeMqttRequest(currentData): it returns, or it raises and the server is
\* connected again; the tenth failure in a row resets the board, and so does
\* a connectMqttServer that fails.
networkingThread_send ==
    /\ net_pc = "send"
    /\ \/ /\ sent' = [data |-> currentData, at |-> readAt]
          /\ prevAt' = sent.at
          /\ lastData' = currentData
          /\ failedRequests' = 0
          /\ net_pc' = "acquire"
          /\ UNCHANGED <<sharedData, sharedDataLock, gps_pc, dataString,
                         lastDataString, currentData, written, readAt>>
       \/ /\ failedRequests + 1 < 10
          /\ sent' = [data |-> currentData, at |-> readAt]
          /\ prevAt' = sent.at
          /\ failedRequests' = failedRequests + 1
          /\ net_pc' = "acquire"
          /\ UNCHANGED <<sharedData, sharedDataLock, gps_pc, dataString,
                         lastDataString, currentData, lastData, written, readAt>>
       \/ hardReset

networkingThread ==
    /\ \/ networkingThread_connect
       \/ networkingThread_acquire
       \/ networkingThread_read
       \/ networkingThread_release
       \/ networkingThread_send
    /\ UNCHANGED <<nmea_vars, scenario, at_vars, sess_vars>>

----------------------------------------------------------------------------
(* The specifications                                                      *)

vars == <<nmea_vars, scenario, at_vars, sess_vars, tracker_vars>>

\* A fresh parser and the stream the receiver is about to deliver.
Init ==
    /\ ParserInit
    /\ ChannelInit
    /\ SessionInit
    /\ TrackerInit
    /\ \E sc \in Scenarios :
          /\ stream = sc.chars
          /\ scenario = [kind |-> sc.kind, start |-> sc.start, byte |-> sc.byte]

\* gpsThread: one character read from the receiver is handed to update.
Next ==
    /\ pos < Len(stream)
    /\ update(stream[pos + 1])
    /\ pos' = pos + 1
    /\ UNCHANGED <<stream, scenario, at_vars, sess_vars, tracker_vars>>

Spec == Init /\ [][Next]_vars

\* The channel alone: calls of execute, one after the other, against a modem
\* that answers each read with nothing or with any of its lines.
InitAT ==
    /\ ParserInit
    /\ ChannelInit
    /\ SessionInit
    /\ TrackerInit
    /\ stream = <<>>
    /\ scenario = [kind |-> "none", start |-> 0, byte |-> ""]

Call ==
    /\ \E cmd \in CommandsModelled, clean \in BOOLEAN : ExecuteBegin(cmd, clean)
    /\ UNCHANGED <<nmea_vars, scenario, sess_vars, tracker_vars>>
Read ==
    /\ \E line \in ModemLines \cup {<<>>} :
          /\ line # <<>> => lines_read < MaxLines
          /\ ExecuteRead(line)
          /\ lines_read' = IF line = <<>> THEN lines_read ELSE lines_read + 1
          /\ uart_rx' = IF line = <<>> THEN uart_rx ELSE Append(uart_rx, line)
          /\ interleaved' = (interleaved \/ (line # <<>> /\ empty_reads > 0))
    /\ UNCHANGED <<nmea_vars, scenario, sess_vars, tracker_vars>>

NextAT == Call \/ Read

SpecAT == InitAT /\ [][NextAT]_vars

\* The channel against a modem that may go on sending lines for ever: as
\* SpecAT, without the bound on the lines of a call and without their history;
\* only the lines that keep the output within MaxOutput characters are sent.
\* The read loop of execute always goes on to its next readline(), which
\* returns (with a line, or with nothing when the UART times out): weak
\* fairness of ReadLive.
ReadLive ==
    /\ \E line \in ModemLines \cup {<<>>} :
          /\ ExecuteRead(line)
          /\ Len(output') <= MaxOutput
    /\ UNCHANGED <<lines_read, uart_rx, interleaved, nmea_vars, scenario, sess_vars,
                   tracker_vars>>

NextLive == Call \/ ReadLive

SpecLive == InitAT /\ [][NextLive]_vars /\ WF_vars(ReadLive)

\* The session: calls of its methods, one after the other, each step against
\* a modem that answers the command, answers with an error or stays silent.
CallMethod ==
    \E m \in Methods :
    \E a \in (IF m = "connectGPRS" THEN ConnectArgs
              ELSE IF m = "makeHTTPRequest" THEN RequestArgs ELSE {NoArgs}) :
        SessionCall(m, a)

NextSession ==
    \/ CallMethod
    \/ initialize
    \/ connectGPRS
    \/ disconnectGPRS
    \/ initHTTP
    \/ closeHTTP
    \/ makeHTTPRequest
    \/ queries

SpecSession == InitAT /\ [][NextSession]_vars

\* The Tracker: the two threads, their steps interleaved.
NextTracker == gpsThread \/ networkingThread

SpecTracker == InitAT /\ [][NextTracker]_vars

----------------------------------------------------------------------------
(* What a run has fed, read off the stream                                 *)

Fed == SubSeq(stream, 1, pos)

\* The characters of s that update accepts (code points 10..126).
Printable(s) == SelectSeq(s, LAMBDA c : 10 <= Ord[c] /\ Ord[c] <= 126)

LastIndexOf(s, c) ==
    LET at == {k \in 1..Len(s) : s[k] = c} IN
    IF at = {} THEN 0 ELSE CHOOSE k \in at : \A j \in at : j <= k

\* Whether a `$` has been fed, and the accepted characters fed after the
\* most recent one.
DollarSeen == LastIndexOf(Fed, "$") > 0
SinceDollar == Printable(SliceFrom(Fed, LastIndexOf(Fed, "$")))

\* The body of h: what precedes its first `*` (all of h when it has none).
BodyOf(h) == IF IndexOf(h, "*") = 0 THEN h ELSE SubSeq(h, 1, IndexOf(h, "*") - 1)

\* The comma-separated fields of a body.
RECURSIVE Split(_)
Split(b) ==
    IF IndexOf(b, ",") = 0 THEN <<b>>
    ELSE <<SubSeq(b, 1, IndexOf(b, ",") - 1)>> \o Split(SliceFrom(b, IndexOf(b, ",")))

\* The characters of h after its last `,` or `*`.
LastSegment(h) ==
    LET a == LastIndexOf(h, ",")
        b == LastIndexOf(h, "*")
    IN  SliceFrom(h, IF a > b THEN a ELSE b)

\* h (the accepted characters since `$`) is a whole sentence: a body, one
\* `*`, and the two hex digits of the XOR of the body.
IsSentence(h) ==
    LET star == IndexOf(h, "*") IN
    /\ star > 0
    /\ Len(h) = star + 2
    /\ SliceFrom(h, star) = Hex2(XorAll(BodyOf(h)))

\* The length guard lets a sentence through when the character before its
\* last one is at most the 90th after `$`.
Admitted(h) == Len(h) - 1 <= NMEA_MAX_CHAR_COUNT

IsRmcTag(t) == t \in {GPRMC, GLRMC, GNRMC}

\* The Fix as the prior sentence of the scenario leaves it: 10 deg 30' S,
\* 20 deg 15' W at 00:00:01, or the Fix of a fresh parser.
PriorFixValue ==
    IF scenario.start = 0
    THEN [utc_time |-> Zero, lat |-> Zero, lng |-> Zero, valid |-> FALSE]
    ELSE [utc_time |-> <<1, 1>>, lat |-> <<-21, 2>>, lng |-> <<-81, 4>>, valid |-> TRUE]

\* The Fix of the round-trip example: 48 + 7.038/60 = 481173/10000 degrees,
\* 11 + 31/60 = 691/60 degrees, at 123519.
ExampleFix ==
    [utc_time |-> <<123519, 1>>, lat |-> <<481173, 10000>>, lng |-> <<691, 60>>,
     valid |-> TRUE]

----------------------------------------------------------------------------
(* Claims about NMEAparser                                                 *)

\* The segments update has built from h: h split at every `,` and `*`.
Segments(h) == Split([k \in 1..Len(h) |-> IF h[k] = "*" THEN "," ELSE h[k]])

\* The characters after the last separator are two characters that
\* int(., 16) reads as the XOR of the body (the characters between `$` and
\* the first `*`).
ChecksumClosed(h) ==
    /\ IndexOf(h, "*") > 0
    /\ Len(LastSegment(h)) = 2
    /\ ParseHex(LastSegment(h)).ok
    /\ ParseHex(LastSegment(h)).val = XorAll(BodyOf(h))

\* The RMC layout parses: a UTC time, and under status "A" two hemisphere
\* letters and two numbers.
RmcParses(segs) ==
    /\ Len(segs) >= 3
    /\ ParseFloat(segs[2]).ok
    /\ segs[3] = <<"A">> =>
          /\ Len(segs) >= 7
          /\ segs[5] \in HEMISPHERES
          /\ segs[7] \in HEMISPHERES
          /\ Degrees(segs[4], 2, segs[5], "N").ok
          /\ Degrees(segs[6], 3, segs[7], "E").ok

\* C1: every update call returns True or False, and it returns True only if
\* its character completes two characters after `*` that read as hex, their
\* value is the XOR of the accepted characters between the most recent `$`
\* and the `*` that ended the fields, and the parser the first segment
\* selects succeeded.
C1_TrueOnlyOnChecksumAndParse ==
    /\ ret \in {"none", "True", "False"}
    /\ ret = "True" =>
          /\ DollarSeen
          /\ ChecksumClosed(SinceDollar)
          /\ IsRmcTag(Segments(SinceDollar)[1])
          /\ RmcParses(Segments(SinceDollar))

\* C2: the RMC example fed to a fresh parser returns False on every
\* character but the last and True on the last, leaving valid = true,
\* lat = 48 + 7.038/60, lng = 11 + 31/60 and utc_time = 123519.
C2_RmcRoundTrip ==
    (scenario.kind = "sentence" /\ scenario.start = 0 /\ stream = RmcExample) =>
        /\ (0 < pos /\ pos < Len(stream)) => ret = "False"
        /\ pos = Len(stream) => (ret = "True" /\ Fix = ExampleFix)

C2_Witness ==
    /\ scenario.kind = "sentence" /\ scenario.start = 0 /\ stream = RmcExample
    /\ pos = Len(stream)
    /\ ret = "True"
    /\ lat = <<481173, 10000>>

\* C3: a checksum-correct RMC sentence (one the length guard admits) whose
\* status field is not exactly "A" and whose UTC time parses returns True
\* and leaves lat = 0, lng = 0, valid = false, whatever the Fix held before.
InvalidRmcFed ==
    /\ DollarSeen
    /\ IsSentence(SinceDollar)
    /\ Admitted(SinceDollar)
    /\ Len(Split(BodyOf(SinceDollar))) >= 3
    /\ IsRmcTag(Split(BodyOf(SinceDollar))[1])
    /\ ParseFloat(Split(BodyOf(SinceDollar))[2]).ok
    /\ Split(BodyOf(SinceDollar))[3] # <<"A">>

C3_InvalidFixClears ==
    InvalidRmcFed => (ret = "True" /\ lat = Zero /\ lng = Zero /\ valid = FALSE)

C3_Witness ==
    /\ InvalidRmcFed
    /\ scenario.kind = "sentence" /\ scenario.start > 0
    /\ ret = "True" /\ lat = Zero /\ lng = Zero /\ valid = FALSE
    /\ utc_time = <<123519, 1>>

\* C4 as stated: in a well-formed, checksum-correct sentence with one byte
\* strictly between `$` and `*` replaced by any different byte, update
\* returns False for every character and the Fix is not updated.
C4_AnyCorruptionRejected ==
    (scenario.kind = "corrupt" /\ pos > scenario.start) =>
        (ret = "False" /\ Fix = PriorFixValue)

\* C4, amended: the same when the replacing byte is neither `*` nor `$`.
C4_DataCorruptionRejected ==
    (scenario.kind = "corrupt" /\ scenario.byte \notin {"*", "$"}
        /\ pos > scenario.start) =>
        (ret = "False" /\ Fix = PriorFixValue)

C4_Witness ==
    /\ scenario.kind = "corrupt"
    /\ scenario.byte \notin {"*", "$"}
    /\ scenario.start > 0
    /\ pos = Len(stream)
    /\ IndexOf(SinceDollar, "*") > 0
    /\ Len(LastSegment(SinceDollar)) = 2
    /\ ret = "False"
    /\ Fix = PriorFixValue

\* C5: (a) after a `$` and more than 90 accepted characters, none of them
\* `*` or `$`, the sentence is not active and update returns False; (b) a
\* `$` fed in any state leaves one empty segment, checksum 0, character
\* count 0, active, field phase; (c) so the well-formed example sentence fed
\* after anything is parsed as by a fresh parser.
C5_OverflowAndRestart ==
    /\ (DollarSeen /\ Len(SinceDollar) > NMEA_MAX_CHAR_COUNT
            /\ IndexOf(SinceDollar, "*") = 0) =>
          (~sentence_active /\ ret = "False")
    /\ (pos > 0 /\ stream[pos] = "$") =>
          /\ gps_segments = << <<>> >>
          /\ active_segment = 0
          /\ crc_xor = 0
          /\ char_count = 0
          /\ sentence_active
          /\ process_crc
          /\ ret = "False"
    /\ (DollarSeen /\ SinceDollar = Tail(RmcExample)) =>
          (ret = "True" /\ Fix = ExampleFix)

C5_Witness ==
    /\ scenario.kind = "overflow"
    /\ stream[NMEA_MAX_CHAR_COUNT + 2] = "X"
    /\ pos = Len(stream)
    /\ SinceDollar = Tail(RmcExample)
    /\ char_count = Len(RmcExample) - 1
    /\ ret = "True"

\* C6: update never raises: every malformed input, a checksum-correct RMC
\* sentence with too few fields included, ends in a False return.
C6_NeverRaises == ret # "IndexError"

\* C7: when the field parser rejects a checksum-correct RMC sentence of full
\* layout (unparsable UTC time, a hemisphere letter outside N/S/E/W, a
\* malformed latitude or longitude), update returns False and utc_time,
\* lat, lng and valid keep the values they had before the sentence.
RejectedRmcFed ==
    /\ scenario.kind = "sentence"
    /\ scenario.start > 0
    /\ pos = Len(stream)
    /\ IsSentence(SinceDollar)
    /\ Len(Split(BodyOf(SinceDollar))) = 7
    /\ IsRmcTag(Split(BodyOf(SinceDollar))[1])
    /\ ~RmcParses(Split(BodyOf(SinceDollar)))

C7_RejectionKeepsFix ==
    RejectedRmcFed => (ret = "False" /\ Fix = PriorFixValue)

\* C8: a checksum-correct GLL or GGA sentence carrying a valid fix makes
\* update return True and sets lat, lng and utc_time from its fields.
C8_GllGgaDispatched ==
    (scenario.kind = "sentence" /\ pos = Len(stream)
        /\ SliceFrom(stream, scenario.start) \in {GllExample, GgaExample}) =>
        (ret = "True" /\ Fix = ExampleFix)

\* C9: once the two characters after `*` do not parse as hex, update
\* returns False for every later character until the next `$`.
BadHexFed ==
    /\ DollarSeen
    /\ IndexOf(SinceDollar, "*") > 0
    /\ Len(SinceDollar) >= IndexOf(SinceDollar, "*") + 2
    /\ ~ParseHex(SubSeq(SinceDollar, IndexOf(SinceDollar, "*") + 1,
                        IndexOf(SinceDollar, "*") + 2)).ok

C9_BadHexAbandons == BadHexFed => ret = "False"

----------------------------------------------------------------------------
(* Claims about SIM800L.execute                                            *)

\* C10: against a transport that never produces a line, execute fails with
\* TimeoutError after exactly command.timeout empty reads (as many one-tick
\* sleeps), for every command timeout.
C10_TimeoutAfterExactlyT ==
    (exec_pc = "raised" /\ error = "TimeoutError" /\ lines_read = 0) =>
        (empty_reads = command.timeout /\ sleeps = command.timeout)

\* The lines of a call that execute keeps: all but the length headers of
\* AT+HTTPREAD, one after the other.
RECURSIVE Stored(_, _)
Stored(lines, cmd) ==
    IF lines = <<>> THEN <<>>
    ELSE Stored(SubSeq(lines, 1, Len(lines) - 1), cmd)
         \o (IF IsReadHeader(lines[Len(lines)], cmd) THEN <<>> ELSE lines[Len(lines)])

IsErrorLine(line) ==
    \/ line = <<"E", "R", "R", "O", "R", "\r", "\n">>
    \/ StartsWith(line, <<"+", "C", "M", "E", " ", "E", "R", "R", "O", "R">>)

\* C11: a line "ERROR\r\n" fails the call with GenericATError, a line that
\* starts with "+CME ERROR" fails it with SpecificATError whose message is
\* the line and the command text; this holds even when the line also is, or
\* starts with, the terminator; the line is the last one the call reads, and
\* the call returns nothing.
C11_ErrorLinesFail ==
    \A k \in 1..Len(uart_rx) :
        IsErrorLine(uart_rx[k]) =>
            /\ k = Len(uart_rx)
            /\ exec_pc = "raised"
            /\ result = <<>>
            /\ IF uart_rx[k] = <<"E", "R", "R", "O", "R", "\r", "\n">>
               THEN error = "GenericATError"
               ELSE /\ error = "SpecificATError"
                    /\ message = uart_rx[k]
                          \o <<"\n", "E", "r", "r", "o", "r", " ", "i", "n", " ",
                               "c", "o", "m", "m", "a", "n", "d", ":">>
                          \o command.string

\* A "+CME ERROR" line that starts with the command's terminator, read after a
\* blank line that is already in the output.
C11_Witness ==
    /\ exec_pc = "raised"
    /\ error = "SpecificATError"
    /\ command = endsOnCME
    /\ pre_end
    /\ output # <<>>
    /\ StartsWith(uart_rx[Len(uart_rx)], command.end)

\* A line that starts with the terminator, is not the terminator line and is
\* not an error line.
IsPrefixLine(line, cmd) ==
    /\ StartsWith(line, cmd.end)
    /\ line # cmd.end \o CRLF
    /\ ~IsErrorLine(line)

\* C12: a line that starts with the terminator without being the terminator
\* line ends the call successfully, and is appended to the output, only when
\* the line read just before it in the same call was blank; otherwise it is
\* kept as output and the call goes on.  The terminator line itself is never
\* appended.
C12_PrefixNeedsBlankBefore ==
    /\ \A k \in 1..Len(uart_rx) :
          IsPrefixLine(uart_rx[k], command) =>
             IF k > 1 /\ uart_rx[k - 1] = CRLF
             THEN /\ k = Len(uart_rx)
                  /\ exec_pc = "returned"
                  /\ output = Stored(uart_rx, command)
             ELSE /\ k = Len(uart_rx) => exec_pc # "returned"
                  /\ StartsWith(output, Stored(SubSeq(uart_rx, 1, k), command))
    /\ (exec_pc = "returned" /\ uart_rx[Len(uart_rx)] = command.end \o CRLF) =>
          output = Stored(SubSeq(uart_rx, 1, Len(uart_rx) - 1), command)

\* C13: a call writes the command text and CRLF once, when it begins and
\* before it reads; while it reads, and when it ends by a return or by any of
\* the three errors, nothing more is written.
C13_WrittenOncePerCall ==
    [][/\ exec_pc = "reading" => uart_tx' = uart_tx
       /\ (exec_pc # "reading" /\ exec_pc' = "reading") =>
             /\ uart_tx' = Append(uart_tx, command'.string \o CRLF)
             /\ empty_reads' = 0
             /\ lines_read' = 0]_vars

\* A call that has failed, after the one write it made.
C13_Witness ==
    /\ exec_pc = "raised"
    /\ error \in {"TimeoutError", "GenericATError", "SpecificATError"}
    /\ uart_tx = <<command.string \o CRLF>>
    /\ lines_read + empty_reads > 1

\* C14: every call of execute eventually ends, by a return or by an error,
\* whatever the transport sends.
C14_EveryCallEnds == (exec_pc = "reading") ~> (exec_pc \in {"returned", "raised"})

----------------------------------------------------------------------------
(* Claims about the session                                                *)

\* The exceptions execute raises.
ExecuteErrors == {"GenericATError", "SpecificATError", "TimeoutError"}

\* The positions of the trace where the identity query was written.
Probes == {i \in DOMAIN trace : trace[i] = Written(productInfo)}

\* C15: initialize writes the identity query (ATI) at most 3 times; a failed
\* probe that is followed by another is followed by one sleep of 3 seconds
\* and then the next probe; the first successful probe is the last one (the
\* SIM query follows it and no probe follows that); and when the third probe
\* fails too, the call ends with the exception execute raised and
\* initialized is what it was before the call, so false if it was false.
C15_ProbeRetries ==
    method = "initialize" =>
        /\ Cardinality(Probes) <= 3
        /\ \A i \in Probes :
              /\ i < Len(trace) =>
                    \/ /\ trace[i + 1] = Slept(3)
                       /\ i + 1 < Len(trace) => trace[i + 2] = Written(productInfo)
                    \/ /\ trace[i + 1] = Written(isSIMInserted)
                       /\ \A j \in Probes : j <= i
              /\ i = Len(trace) /\ sess_pc = "done" =>
                    /\ Cardinality(Probes) = 3
                    /\ outcome \in ExecuteErrors
                    /\ initialized = before.initialized
                    /\ ~before.initialized => ~initialized
        /\ \A i \in DOMAIN trace :
              trace[i] = Slept(3) => i > 1 /\ (i - 1) \in Probes

\* All three probes failed on a session that was not initialized.
C15_Witness ==
    /\ method = "initialize"
    /\ sess_pc = "done"
    /\ trace = <<Written(productInfo), Slept(3), Written(productInfo), Slept(3),
                 Written(productInfo)>>
    /\ outcome \in ExecuteErrors
    /\ ~initialized

\* C16: when initialize, connectGPRS, disconnectGPRS, initHTTP or closeHTTP
\* ends with an exception, initialized, GPRSinitialized and HTTPinitialized
\* are what they were when the call began.
C16_ErrorsCommitNothing ==
    /\ method \in {"initialize", "connectGPRS", "disconnectGPRS", "initHTTP",
                   "closeHTTP"}
    /\ sess_pc = "done"
    /\ outcome # "returned"
    => Flags = before

\* C17: in every state of a session GPRSinitialized implies initialized and
\* HTTPinitialized implies initialized.
C17_OpenImpliesInitialized ==
    /\ GPRSinitialized => initialized
    /\ HTTPinitialized => initialized

\* C18: a connectGPRS call on a session that is not initialized writes no
\* command to the transport, whatever its arguments, does not return
\* normally, and leaves GPRSinitialized false.
C18_ConnectNeedsInitialized ==
    method = "connectGPRS" /\ ~before.initialized =>
        /\ \A i \in DOMAIN trace : trace[i].ev # "write"
        /\ sess_pc = "done" => outcome # "returned"
        /\ ~GPRSinitialized

\* C19: when the first bearer status query of a connectGPRS call on an
\* initialized session reports a valid address other than 0.0.0.0, the call
\* returns that address at once: the only commands written in the call are
\* the status query and, for an empty apn, the provider query before it, so
\* neither close-bearer nor a bearer parameter nor open-bearer is issued.
\* Every such call returns the address the modem reports, so two calls in a
\* row against a modem that reports the same address return the same one.
C19_ConnectedReturnsAtOnce ==
    [][method = "connectGPRS" /\ sess_pc = "getIP"
          /\ outcome' \in {"", "returned"} /\ ipAddr' # None
       => /\ initialized
          /\ sess_pc' = "done"
          /\ outcome' = "returned"
          /\ retval' = ipAddr'
          /\ trace' \in {<<Written(bearerStatus)>>,
                        <<Written(getServiceProviderNameCmd), Written(bearerStatus)>>}]_vars

\* A second connectGPRS in a row on a session whose bearer the first one
\* opened: the status query reports the address and the call returns it.
C19_Witness ==
    /\ method = "connectGPRS"
    /\ before.GPRSinitialized
    /\ sess_pc = "done"
    /\ outcome = "returned"
    /\ trace = <<Written(bearerStatus)>>
    /\ retval = <<"1", "0", ".", "0", ".", "0", ".", "1">>
    /\ retval = ipAddr

\* C20: when a connectGPRS call has returned an address, GPRSinitialized is
\* true, whether the call returned at the first status query or after
\* opening the bearer and polling.
C20_ReturnedMeansBearerOpen ==
    method = "connectGPRS" /\ sess_pc = "done" /\ outcome = "returned"
    => GPRSinitialized

\* The position of the open-bearer command in the trace of the call, 0 when
\* it has not been written, and the status queries written after it.
OpenedAt ==
    IF \E i \in DOMAIN trace : trace[i] = Written(openBearer)
    THEN CHOOSE i \in DOMAIN trace : trace[i] = Written(openBearer)
    ELSE 0
Polls ==
    {i \in DOMAIN trace : OpenedAt > 0 /\ i > OpenedAt /\ trace[i] = Written(bearerStatus)}

\* Polls were made and every one so far was answered with "0.0.0.0": the
\* loop adds 2 to retries for such a poll and 1 for any other.
AllPollsZero == Polls # {} /\ retries = 2 * Cardinality(Polls)

\* C21: while fewer than 5 polls have been made after open-bearer and all of
\* them were answered "0.0.0.0", connectGPRS has not given up: it goes on to
\* the next poll, so that a valid address on the 5th poll is returned after
\* exactly 5 polls.
C21_FifthPollIsMade ==
    method = "connectGPRS" /\ AllPollsZero /\ Cardinality(Polls) <= 4
    => sess_pc = "poll"

\* C22: a connectGPRS call makes at most 5 polls after open-bearer; a poll
\* that is followed by another is followed by one sleep of 1 second and
\* then the next poll; when every poll was answered "0.0.0.0" the call has
\* ended with an Exception by the 5th poll at the latest, and
\* GPRSinitialized is what it was before the call, so it is not set to true.
C22_ZeroPollsEndInError ==
    method = "connectGPRS" =>
        /\ Cardinality(Polls) <= 5
        /\ \A i \in Polls :
              i < Len(trace) =>
                 /\ trace[i + 1] = Slept(1)
                 /\ i + 1 < Len(trace) => trace[i + 2] = Written(bearerStatus)
        /\ AllPollsZero =>
              /\ GPRSinitialized = before.GPRSinitialized
              /\ sess_pc = "done" => outcome = "Exception"
              /\ Cardinality(Polls) >= 5 => sess_pc = "done"
              /\ sess_pc \in {"poll", "done"}

\* Every poll was answered "0.0.0.0" and the call has given up.
C22_Witness ==
    /\ method = "connectGPRS"
    /\ AllPollsZero
    /\ sess_pc = "done"
    /\ outcome = "Exception"
    /\ ~GPRSinitialized
    /\ getIP(execute(bearerStatus, heard, TRUE)) = [error |-> "", ip |-> None]
    /\ trace[Len(trace) - 1] = Slept(1)

\* C23: in disconnectGPRS a GenericATError or SpecificATError of the
\* close-bearer command does not end the call, which goes on to the status
\* query with the flags untouched; when the status query reports an address
\* the call ends with an Exception and GPRSinitialized keeps its value; when
\* it reports "0.0.0.0" the call returns and GPRSinitialized is false.
C23_DisconnectChecksAddress ==
    [][method = "disconnectGPRS" =>
          /\ sess_pc = "closeBearer" =>
                /\ outcome' \notin {"GenericATError", "SpecificATError"}
                /\ execute(closeBearer, heard', TRUE).error
                      \in {"", "GenericATError", "SpecificATError"}
                   => sess_pc' = "getIP" /\ trace' = <<Written(closeBearer)>>
                /\ GPRSinitialized' = GPRSinitialized
          /\ sess_pc = "getIP" =>
                /\ trace' = <<Written(closeBearer), Written(bearerStatus)>>
                /\ sess_pc' = "done"
                /\ getIP(execute(bearerStatus, heard', TRUE)).error # ""
                   => outcome' # "returned" /\ GPRSinitialized' = GPRSinitialized
                /\ getIP(execute(bearerStatus, heard', TRUE)).error = ""
                   => IF getIP(execute(bearerStatus, heard', TRUE)).ip # None
                      THEN /\ outcome' = "Exception"
                           /\ GPRSinitialized' = GPRSinitialized
                      ELSE /\ outcome' = "returned"
                           /\ GPRSinitialized' = FALSE]_vars

\* An address remained after the close on a session whose bearer was open.
C23_Witness ==
    /\ method = "disconnectGPRS"
    /\ sess_pc = "done"
    /\ outcome = "Exception"
    /\ before.GPRSinitialized
    /\ GPRSinitialized
    /\ getIP(execute(bearerStatus, heard, TRUE)).ip # None

\* C24: an initHTTP call made while GPRSinitialized is false does not return
\* normally, and HTTPinitialized, false before the call, is false after it.
C24_InitHTTPNeedsBearer ==
    method = "initHTTP" /\ ~before.GPRSinitialized /\ sess_pc = "done"
    => /\ outcome # "returned"
       /\ ~before.HTTPinitialized => ~HTTPinitialized

\* C25: a makeHTTPRequest call made while HTTPinitialized is false writes no
\* command and ends with an Exception; and during and after every
\* makeHTTPRequest call, whatever its method and however it ends,
\* initialized, GPRSinitialized and HTTPinitialized are what they were when
\* the call began.
C25_RequestKeepsFlags ==
    method = "makeHTTPRequest" =>
        /\ Flags = before
        /\ ~before.HTTPinitialized =>
              /\ trace = <<>>
              /\ sess_pc \in {"checkHTTP", "done"}
              /\ sess_pc = "done" => outcome = "Exception"

\* A request on a session whose HTTP service was never initialised.
C25_Witness ==
    /\ method = "makeHTTPRequest"
    /\ ~before.HTTPinitialized
    /\ sess_pc = "done"
    /\ outcome = "Exception"
    /\ trace = <<>>
    /\ Flags = before

\* C26: when a call of getSignalStrength, batteryStatus,
\* networkRegisterationStatus, scanNetworks, getCurrentNetwork,
\* getServiceProviderName or getCellTowerInfo is over, exactly one command
\* has been written in it, and initialized, GPRSinitialized and
\* HTTPinitialized are what they were before the call.
C26_QueriesWriteOneCommand ==
    method \in Queries \cup {"getCellTowerInfo"} /\ sess_pc = "done"
    => /\ Len(trace) = 1
       /\ trace[1].ev = "write"
       /\ Flags = before

\* The output execute returned for the last command of the call, when it
\* returned one.
Answered(cmd) == heard # <<>> /\ execute(cmd, heard, TRUE).error = ""
OutputOf(cmd) == execute(cmd, heard, TRUE).result

\* The entries of a scanNetworks output and the lines of a getCellTowerInfo
\* output, each as its comma-separated fields.
ScannedEntries ==
    SplitOn(BeforeSep(Strip(Partition(OutputOf(scanOperators), ":").tail), <<",", ",">>),
            <<",", "(">>)
ScannedLines == SplitBy(OutputOf(scanCellInfo), "\n")

\* A parse error: an exception that is none of those execute raises.
ParseError == outcome \notin {"", "returned"} \cup ExecuteErrors

\* C27: when the modem answered a query but the answer has not the number
\* of comma-separated fields the query expects (3 for getCurrentNetwork, 4
\* in every entry for scanNetworks, 8 in every line for getCellTowerInfo, 3
\* for getIP), the call ends with an exception that is not TimeoutError,
\* GenericATError or SpecificATError: it does not return.
C27_MismatchIsParseError ==
    sess_pc = "done" =>
        /\ (method = "getCurrentNetwork" /\ Answered(currentOperator)
            /\ Len(SplitBy(OutputOf(currentOperator), ",")) # 3)
           => ParseError
        /\ (method = "scanNetworks" /\ Answered(scanOperators)
            /\ \E k \in DOMAIN ScannedEntries :
                   Len(NetworkFields(ScannedEntries[k])) # 4)
           => ParseError
        /\ (method = "getCellTowerInfo" /\ Len(trace) = 2 /\ Answered(scanCellInfo)
            /\ \E k \in DOMAIN ScannedLines :
                   Len(SplitBy(ScannedLines[k], ",")) # 8)
           => ParseError
        /\ (method \in {"connectGPRS", "disconnectGPRS"} /\ trace # <<>>
            /\ trace[Len(trace)] = Written(bearerStatus) /\ Answered(bearerStatus)
            /\ Len(SplitBy(LastOf(SplitBy(OutputOf(bearerStatus), "+")), ",")) # 3)
           => ParseError

\* C28: the two threads touch sharedData only while holding sharedDataLock
\* and never hold it together (each holds it exactly between its acquire and
\* its release, and a held lock can always be released); sharedData is the
\* value gpsThread stored last; and the value networkingThread hands to
\* makeMqttRequest is the one stored last when it read sharedData, so that
\* requests never go back to an older value.
C28_MailboxSendsNewest ==
    /\ sharedDataLock = "gps" <=> gps_pc \in {"write", "release"}
    /\ sharedDataLock = "net" <=> net_pc \in {"read", "release"}
    /\ ~(gps_pc \in {"write", "release"} /\ net_pc \in {"read", "release"})
    /\ sharedDataLock = "gps" => ENABLED (gpsThread_write \/ gpsThread_release)
    /\ sharedDataLock = "net"
       => ENABLED (networkingThread_read \/ networkingThread_release)
    /\ sharedData = IF written = <<>> THEN "" ELSE written[Len(written)]
    /\ net_pc = "send" => readAt >= 1 /\ currentData = written[readAt]
    /\ sent.at >= 1 => sent.data = written[sent.at] /\ prevAt <= sent.at

\* A request was made with the second value stored, the first one having been
\* overwritten before networkingThread read it: the first was never sent.
C28_Witness ==
    /\ sent.at = 2
    /\ prevAt = 0
    /\ written[1] # written[2]
    /\ sharedDataLock = ""

\* C29: update does not return True for a character that is the 91st or a
\* later accepted character after the last `$`.
C29_NoUpdateBeyondLimit ==
    (DollarSeen /\ ret = "True") => Len(SinceDollar) <= NMEA_MAX_CHAR_COUNT

\* The characters stored in the segments of a buffer.
RECURSIVE StoredChars(_)
StoredChars(segments) ==
    IF segments = <<>> THEN 0
    ELSE Len(Head(segments)) + StoredChars(Tail(segments))

\* C30: whatever is fed, gps_segments never holds more segments than the
\* first one and one for each of the 91 characters accepted before the
\* length guard trips, nor more than 91 characters in all.
C30_BufferBounded ==
    /\ Len(gps_segments) <= NMEA_MAX_CHAR_COUNT + 2
    /\ StoredChars(gps_segments) <= NMEA_MAX_CHAR_COUNT + 1

\* An accepted character c completes h, the accepted characters since the
\* last `$`, into a sentence whose checksum matches and whose tag is one of
\* the RMC tags of the dispatch table.
CompletesDispatched(h, c) ==
    /\ IsPrintable(Ord[c])
    /\ ChecksumClosed(h)
    /\ IsRmcTag(Segments(h)[1])

AcceptedFix ==
    /\ ret = "True"
    /\ DollarSeen
    /\ ChecksumClosed(SinceDollar)
    /\ Len(Segments(SinceDollar)) >= 7
    /\ Segments(SinceDollar)[3] = <<"A">>

\* C32: in an accepted RMC sentence with status "A" the latitude letter is
\* N or S and the longitude letter is E or W, the stored latitude is the
\* parsed one, negated exactly under "S", and the stored longitude is the
\* parsed one, negated exactly under "W".
C32_SignFollowsHemisphere ==
    AcceptedFix =>
        /\ Segments(SinceDollar)[5] \in {<<"N">>, <<"S">>}
        /\ Segments(SinceDollar)[7] \in {<<"E">>, <<"W">>}
        /\ lat = RatMulInt(Degrees(Segments(SinceDollar)[4], 2, <<"N">>, "N").val,
                           IF Segments(SinceDollar)[5] = <<"S">> THEN -1 ELSE 1)
        /\ lng = RatMulInt(Degrees(Segments(SinceDollar)[6], 3, <<"E">>, "E").val,
                           IF Segments(SinceDollar)[7] = <<"W">> THEN -1 ELSE 1)

\* C33: when initialize has passed the identity query and the SIM check and
\* execute raises TimeoutError, GenericATError or SpecificATError on the SSL
\* capability query, initialize does not end with that error: the session
\* is initialized and sslSupported is false.
C33_SslProbeIsBestEffort ==
    [][\A h \in {heard'} :
          (method = "initialize" /\ sess_pc = "checkSSL"
           /\ execute(checkSSL, h, TRUE).error \in ExecuteErrors)
          => (outcome' \notin ExecuteErrors /\ initialized' /\ ~sslSupported')]_vars

\* The commands of a connectGPRS call that finds no address, in the order
\* the claim gives them: what precedes the close (the provider query of a
\* call without apn, the first status query), then the close, the bearer
\* type, the APN, the credentials that are not empty, and the open.
ConnectLead ==
    (IF args.apn = <<>> THEN <<getServiceProviderNameCmd>> ELSE <<>>)
    \o <<bearerStatus>>
ConnectSetup ==
    <<closeBearer, setBearerGPRS, setBearerAPN(apn)>>
    \o (IF args.username # <<>> THEN <<setBearerUsername(args.username)>> ELSE <<>>)
    \o (IF args.password # <<>> THEN <<setBearerPassword(args.password)>> ELSE <<>>)
    \o <<openBearer>>
\* The i-th command of the call: after the open come the polls.
ConnectCommand(cmds, i) == IF i <= Len(cmds) THEN cmds[i] ELSE bearerStatus
\* The commands written so far.
WrittenSoFar == SelectSeq(trace, LAMBDA e : e.ev = "write")
\* The exception the last command of the call ended in, "" when none: that
\* of execute, or for a poll that of getIP.
ConnectError(cmds, n) ==
    IF n > Len(cmds) THEN getIP(execute(bearerStatus, heard, TRUE)).error
    ELSE execute(cmds[n], heard, TRUE).error

\* C34: a connectGPRS call writes its commands in the order close-bearer,
\* bearer type, APN, username and password when not empty, open-bearer,
\* status polls; a GenericATError or SpecificATError of the close is
\* ignored; an exception of any later command ends the call with that
\* exception at once, and a call that does not return leaves GPRSinitialized
\* as it was.
C34_ConnectOrder ==
    method = "connectGPRS" =>
        \A cmds \in {ConnectLead \o ConnectSetup} :
        \A n \in {Len(WrittenSoFar)} :
            /\ \A i \in 1..n : WrittenSoFar[i] = Written(ConnectCommand(cmds, i))
            /\ (n = Len(ConnectLead) + 1
                /\ execute(closeBearer, heard, TRUE).error
                      \in {"GenericATError", "SpecificATError"})
               => sess_pc = "setBearerGPRS"
            /\ (n > Len(ConnectLead) + 1 /\ ConnectError(cmds, n) # "")
               => (sess_pc = "done" /\ outcome = ConnectError(cmds, n))
            /\ (sess_pc = "done" /\ outcome # "returned")
               => GPRSinitialized = before.GPRSinitialized

\* A call with both credentials went through the whole sequence and one
\* poll, and returned the address.
C34_Witness ==
    /\ method = "connectGPRS"
    /\ args.username # <<>>
    /\ args.password # <<>>
    /\ sess_pc = "done"
    /\ outcome = "returned"
    /\ GPRSinitialized
    /\ ~before.GPRSinitialized
    /\ Len(WrittenSoFar) = Len(ConnectLead) + Len(ConnectSetup) + 1
    /\ WrittenSoFar[Len(ConnectLead) + 4] = Written(setBearerUsername(args.username))
    /\ WrittenSoFar[Len(ConnectLead) + 5] = Written(setBearerPassword(args.password))

\* The commands of a makeHTTPRequest call, in the order the claim gives
\* them: the URL, then for a POST the content type, the data length, the
\* body and the POST action, for a GET the GET action, and the read; for
\* another method the URL alone.
RequestCommands ==
    <<setHTTPParameterURL(RequestURL)>>
    \o (IF args.method = "POST"
        THEN <<setHTTPParameterContent(RequestContentType), HTTPData,
               dumpData(RequestData), HTTPActionPOST, HTTPRead>>
        ELSE IF args.method = "GET" THEN <<HTTPActionGET, HTTPRead>>
        ELSE <<>>)

\* C35: a makeHTTPRequest call on an open HTTP service writes the URL
\* command, then for a POST the content type, the data-length command
\* (which ends on DOWNLOAD: an OK does not end it), the body and the POST
\* action, for a GET the GET action, and last the read, whose output is
\* returned uncleaned; an exception of execute on any of them ends the call
\* with that exception and nothing more is written; a method other than GET
\* and POST ends in an exception with no action and no read written.
C35_RequestOrder ==
    (method = "makeHTTPRequest" /\ before.HTTPinitialized) =>
        \A cmds \in {RequestCommands} :
        \A n \in {Len(trace)} :
            /\ n <= Len(cmds)
            /\ \A i \in 1..n : trace[i] = Written(cmds[i])
            /\ (n >= 1 /\ execute(cmds[n], heard, cmds[n] # HTTPRead).error # "")
               => /\ sess_pc = "done"
                  /\ outcome = execute(cmds[n], heard, cmds[n] # HTTPRead).error
            /\ sess_pc = "dumpData"
               => heard[Len(heard)] = <<"D", "O", "W", "N", "L", "O", "A", "D", "\r", "\n">>
            /\ (sess_pc = "done" /\ outcome = "returned")
               => /\ n = Len(cmds)
                  /\ cmds[n] = HTTPRead
                  /\ \E code \in {<<"2", "0", "0">>} :
                        retval = code \o <<"|">> \o execute(HTTPRead, heard, FALSE).result
            /\ (sess_pc = "done" /\ args.method \notin {"GET", "POST"})
               => outcome \notin {"", "returned"}

\* A POST went through its six commands and returned the response.
C35_Witness ==
    /\ method = "makeHTTPRequest"
    /\ args.method = "POST"
    /\ before.HTTPinitialized
    /\ sess_pc = "done"
    /\ outcome = "returned"
    /\ Len(trace) = 6
    /\ trace[3] = Written(HTTPData)
    /\ trace[4] = Written(dumpData(RequestData))
    /\ trace[6] = Written(HTTPRead)
    /\ retval = <<"2", "0", "0", "|", "h", "\r", "\n", "i">>
    /\ execute(HTTPRead, heard, TRUE).result = <<"h", "\n", "i">>

\* C36: every read of a call that returns nothing adds one to empty_reads,
\* a read that returns a line leaves the count as it is, and the call ends
\* in TimeoutError exactly at the empty read that takes the count of the
\* whole call above the timeout of the command.
C36_EmptyReadsNeverReset ==
    [][exec_pc = "reading" =>
          IF lines_read' = lines_read
          THEN /\ empty_reads' = empty_reads + 1
               /\ (exec_pc' = "raised" /\ error' = "TimeoutError")
                  <=> empty_reads' > command.timeout
          ELSE /\ empty_reads' = empty_reads
               /\ error' # "TimeoutError"]_vars

\* A call timed out although output lines came between its empty reads: no
\* run of consecutive empty reads was longer than the timeout.
C36_Witness ==
    /\ exec_pc = "raised"
    /\ error = "TimeoutError"
    /\ interleaved
    /\ output # <<>>
    /\ command.timeout >= 3
    /\ empty_reads = command.timeout + 1

\* C37: in every state of a session HTTPinitialized implies GPRSinitialized.
C37_HttpOpenImpliesBearerOpen == HTTPinitialized => GPRSinitialized

\* C38: update returns True only for a character of an active sentence, and
\* the character that makes the checksum match (True returned or not) leaves
\* the sentence inactive; while the sentence is inactive every character but
\* `$` leaves it inactive, leaves utc_time, lat, lng and valid as they were
\* and has False returned: between two `$` True is returned at most once.
C38_OneUpdatePerSentence ==
    [][\A h \in {SinceDollar'} : \A c \in {stream'[pos']} :
          /\ ret' = "True" => (sentence_active /\ ~sentence_active')
          /\ (sentence_active /\ c # "$" /\ IsPrintable(Ord[c]) /\ ChecksumClosed(h))
             => ~sentence_active'
          /\ (~sentence_active /\ c # "$")
             => (~sentence_active' /\ Fix' = Fix /\ ret' = "False")]_vars

\* After a sentence whose checksum matched, a `,` and the same two checksum
\* characters were fed: they close a matching checksum again and are ignored.
C38_Witness ==
    /\ scenario.kind = "checksum"
    /\ pos = Len(stream)
    /\ DollarSeen
    /\ Len(SinceDollar) = IndexOf(SinceDollar, "*") + 5
    /\ ChecksumClosed(SubSeq(SinceDollar, 1, IndexOf(SinceDollar, "*") + 2))
    /\ IsRmcTag(Segments(SinceDollar)[1])
    /\ ChecksumClosed(SinceDollar)
    /\ ~sentence_active
    /\ ret = "False"
    /\ valid

====
